---- MODULE Spec2Model ----
(***************************************************************************)
(* Curation engine of ai-wechat-news-agent: ContentFilter                  *)
(* (src/src/utils/validators.py) over NewsItem records                     *)
(* (src/src/tools/base_tool.py).                                           *)
(*                                                                         *)
(* Text is a sequence of symbols.  A symbol is one token of the tokenizer  *)
(* (jieba.cut): a word, a blank, or a punctuation character.  Scores are   *)
(* integers in thousandths; similarities are integers in units of          *)
(* 1/SimScale, so that every Jaccard ratio of the model is exact.          *)
(***************************************************************************)
EXTENDS Integers, Sequences, FiniteSets, TLC

\* ------------------------------------------------------------------ bounds
\* longest list handed to filter_and_dedupe
MaxLen == 3

\* ------------------------------------------------------------- arithmetic
\* unit of a Jaccard ratio: every union of at most 6 elements divides it
JUnit == 2 * 2 * 3 * 5
\* unit of a fingerprint similarity: 1.0 is SimScale
SimScale == 100 * JUnit
\* unit of a quality score: 1.0 is ScoreScale
ScoreScale == 10 * 100

Min(a, b) == IF a <= b THEN a ELSE b
Max(a, b) == IF a >= b THEN a ELSE b

\* --------------------------------------------------------------- symbols
\* str.split / str.join separators used by the fingerprint
Pipe == "|"
Comma == ","

\* number of characters of a symbol (len of the Python string)
CharLen(s) ==
    CASE s = "GPT" -> 3
      [] s = "news" -> 4
      [] s = "model" -> 5
      [] s = "OpenAI" -> 6
      [] s = "agent" -> 5
      [] s = "the" -> 3
      [] s = "W101" -> 101
      [] OTHER -> 1

\* code-point order of the symbols, as sorted() of Python strings sees them
Ord(s) ==
    CASE s = " " -> 1
      [] s = "," -> 2
      [] s = ":" -> 3
      [] s = "GPT" -> 4
      [] s = "OpenAI" -> 5
      [] s = "W101" -> 6
      [] s = "agent" -> 7
      [] s = "model" -> 8
      [] s = "news" -> 9
      [] s = "the" -> 10
      [] OTHER -> 11

\* the stopword table of _load_stopwords, restricted to the symbols in use
stopwords == {"the"}

\* jieba.analyse.extract_tags keeps a token only when it has at least two
\* characters and is not one of the extractor's own stop words
IsTag(s) == CharLen(s) >= 2 /\ s # "the"

\* ------------------------------------------------------------ sequences
Range(s) == {s[i] : i \in 1..Len(s)}

\* sorted(S): the elements of a set of symbols in code-point order
RECURSIVE SortedSyms(_)
SortedSyms(S) ==
    IF S = {} THEN <<>>
    ELSE LET m == CHOOSE x \in S : \A y \in S : Ord(x) <= Ord(y)
         IN <<m>> \o SortedSyms(S \ {m})

\* sep.join(list) of a list of symbols
RECURSIVE Join(_, _)
Join(syms, sep) ==
    IF syms = <<>> THEN <<>>
    ELSE IF Len(syms) = 1 THEN <<syms[1]>>
    ELSE <<syms[1], sep>> \o Join(Tail(syms), sep)

\* str.split(sep): the list of parts; the empty string gives one empty part
RECURSIVE Split(_, _)
Split(str, sep) ==
    IF \A i \in 1..Len(str) : str[i] # sep THEN <<str>>
    ELSE LET k == CHOOSE i \in 1..Len(str) :
                      str[i] = sep /\ \A j \in 1..(i - 1) : str[j] # sep
         IN <<SubSeq(str, 1, k - 1)>> \o Split(SubSeq(str, k + 1, Len(str)), sep)

\* jieba.cut(text): the tokens of a text are its symbols
cut(text) == Range(text)

\* jieba.analyse.extract_tags(text, topK): the tags of a text ranked by
\* weight; the rank of the model is the position of the first occurrence
RECURSIVE RankedTags(_, _)
RankedTags(text, seen) ==
    IF text = <<>> THEN <<>>
    ELSE IF IsTag(Head(text)) /\ Head(text) \notin seen
         THEN <<Head(text)>> \o RankedTags(Tail(text), seen \cup {Head(text)})
         ELSE RankedTags(Tail(text), seen)

extract_tags(text, topK) ==
    LET r == RankedTags(text, {})
    IN SubSeq(r, 1, Min(topK, Len(r)))

\* ---------------------------------------------------------- fingerprint
\* a variant that divides by the size of the first set
JaccardOverFirst(A, B) == (Cardinality(A \cap B) * JUnit) \div Cardinality(A)

\* Jaccard index |A ∩ B| / |A ∪ B| in units of 1/JUnit; A ∪ B is not empty
Jaccard(A, B) == (Cardinality(A \cap B) * JUnit) \div Cardinality(A \cup B)

\* ContentFilter._calculate_fingerprint
calculate_fingerprint(news_item) ==
    LET title_keywords == extract_tags(news_item.title, 10)
        content_keywords == extract_tags(news_item.content.text, 30)
    IN news_item.title
         \o <<Pipe>> \o Join(SortedSyms(Range(title_keywords)), Comma)
         \o <<Pipe>> \o Join(SortedSyms(Range(content_keywords)), Comma)

\* ContentFilter._calculate_text_similarity, in units of 1/JUnit
calculate_text_similarity(text1, text2) ==
    IF text1 = text2 THEN JUnit
    ELSE LET words1 == cut(text1) \ stopwords
             words2 == cut(text2) \ stopwords
         IN IF words1 = {} \/ words2 = {} THEN 0
            ELSE Jaccard(words1, words2)

\* set(part.split(',')) if part else set()
KwSet(part) == IF part = <<>> THEN {} ELSE Range(Split(part, Comma))

\* ContentFilter._calculate_fingerprint_similarity, in units of 1/SimScale
calculate_fingerprint_similarity(fp1, fp2) ==
    LET parts1 == Split(fp1, Pipe)
        parts2 == Split(fp2, Pipe)
    IN IF Len(parts1) # 3 \/ Len(parts2) # 3 THEN 0
       ELSE LET title_similarity == calculate_text_similarity(parts1[1], parts2[1])
                title_kw_set1 == KwSet(parts1[2])
                title_kw_set2 == KwSet(parts2[2])
                content_kw_set1 == KwSet(parts1[3])
                content_kw_set2 == KwSet(parts2[3])
                kw_title == IF title_kw_set1 # {} /\ title_kw_set2 # {}
                            THEN Jaccard(title_kw_set1, title_kw_set2) * 4
                            ELSE 0
                kw_content == IF content_kw_set1 # {} /\ content_kw_set2 # {}
                              THEN Jaccard(content_kw_set1, content_kw_set2) * 6
                              ELSE 0
                kw_similarity == kw_title + kw_content
            IN title_similarity * 60 + kw_similarity * 4

\* -------------------------------------------------------------- NewsItem
\* "now" (get_utc_now), fixed, in days
Now == 2 * 100

\* NewsItem.__init__: the record a producer hands over.  content is kept as
\* what the engine observes of it: its tokens, its character count, its
\* paragraph count, the value (or fault) of textstat.flesch_reading_ease and
\* the two regex matches; published_date is an instant in days
NewsItem(title, content, url, source, published_date, score) ==
    [title |-> title, content |-> content, url |-> url, source |-> source,
     published_date |-> published_date, score |-> score]

Content(text, length, paragraphs, readability, readable, has_url, has_pct) ==
    [text |-> text, length |-> length, paragraphs |-> paragraphs,
     readability |-> readability, readable |-> readable,
     has_url |-> has_url, has_pct |-> has_pct]

\* datetime_utils.days_since: (now - dt).days
days_since(dt) == Now - dt

\* ------------------------------------------------------ quality assessor
\* sub-scores are in tenths, the composite in thousandths

\* assess_quality, lines 150-161: the content-length rule
LengthScore(content_length) ==
    IF content_length < 100 THEN 2
    ELSE IF content_length < 300 THEN 5
    ELSE IF content_length < 1000 THEN 8
    ELSE 10

RECURSIVE TextLen(_)
TextLen(text) == IF text = <<>> THEN 0 ELSE CharLen(Head(text)) + TextLen(Tail(text))

\* keyword in title, for the keywords of ai_keywords among the symbols
ai_keywords == {"GPT"}

assess_title_quality(title) ==
    IF title = <<>> THEN 0
    ELSE LET title_length == TextLen(title)
             by_length == IF 10 <= title_length /\ title_length <= 100 THEN 5
                          ELSE IF title_length > 100 THEN 3
                          ELSE 1
             by_keyword == IF \E k \in ai_keywords : k \in Range(title) THEN 3 ELSE 0
             by_format == IF ":" \in Range(title) THEN 2 ELSE 0
         IN Min(by_length + by_keyword + by_format, 10)

\* a token on which the keyword extractor raises instead of returning tags
Unparseable == "<unparseable>"

\* jieba.analyse.extract_tags(content, topK=10) at line 234 stands outside
\* the try of lines 252-260: a fault of the extractor leaves
\* _assess_content_richness as an exception
richness_raises(content) ==
    content.length # 0 /\ Unparseable \in Range(content.text)

\* assess_quality has no try of its own: it raises when a sub-score raises
assess_raises(item) == richness_raises(item.content)

\* _assess_content_richness, lines 231-269: the score of a content that is
\* not empty
richness_of_text(content) ==
    LET keywords == extract_tags(content.text, 10)
        by_keywords == IF Len(keywords) >= 5 THEN 3
                       ELSE IF Len(keywords) >= 3 THEN 2
                       ELSE 1
        by_paragraphs == IF content.paragraphs >= 3 THEN 3
                         ELSE IF content.paragraphs >= 2 THEN 2
                         ELSE 1
        by_readability == IF content.readable
                          THEN IF 30 <= content.readability /\ content.readability <= 70
                               THEN 2 ELSE 1
                          ELSE 1
        by_url == IF content.has_url THEN 1 ELSE 0
        by_pct == IF content.has_pct THEN 1 ELSE 0
    IN Min(by_keywords + by_paragraphs + by_readability + by_url + by_pct, 10)

\* a variant of the richness rule that gives an empty content the lowest
\* values of the keyword, paragraph and readability buckets instead of 0.0
assess_content_richness_floor(content) ==
    IF content.length = 0 THEN 3 ELSE richness_of_text(content)

\* _assess_content_richness, lines 228-229: if not content: return 0.0
assess_content_richness(content) ==
    IF content.length = 0 THEN 0 ELSE richness_of_text(content)

\* a variant of the recency rule without the bucket of the second week
assess_recency_no_fortnight(published_date) ==
    LET days_diff == days_since(published_date)
    IN IF days_diff < 1 THEN 10
       ELSE IF days_diff < 3 THEN 9
       ELSE IF days_diff < 7 THEN 8
       ELSE IF days_diff < 30 THEN 4
       ELSE IF days_diff < 90 THEN 2
       ELSE 1

assess_recency(published_date) ==
    LET days_diff == days_since(published_date)
    IN IF days_diff < 1 THEN 10
       ELSE IF days_diff < 3 THEN 9
       ELSE IF days_diff < 7 THEN 8
       ELSE IF days_diff < 14 THEN 6
       ELSE IF days_diff < 30 THEN 4
       ELSE IF days_diff < 90 THEN 2
       ELSE 1

\* source.startswith(prefix) over the source tags in use
assess_source_reliability(source) ==
    CASE source \in {"arxiv", "arxiv_cs"} -> 9
      [] source \in {"github", "github_trending"} -> 8
      [] source \in {"huggingface", "huggingface_models"} -> 9
      [] source \in {"web_search"} -> 6
      [] OTHER -> 5

\* the five sub-scores of assess_quality
SubScores(item) ==
    [len |-> LengthScore(item.content.length),
     title |-> assess_title_quality(item.title),
     richness |-> assess_content_richness(item.content),
     recency |-> assess_recency(item.published_date),
     source |-> assess_source_reliability(item.source)]

\* a variant whose weights do not add up to 1.0
WeightedSumOff(sub) ==
    sub.len * 25 + sub.title * 25 + sub.richness * 30 + sub.recency * 15 + sub.source * 15

\* the weighted sum of assess_quality, before the cap
WeightedSum(sub) ==
    sub.len * 20 + sub.title * 20 + sub.richness * 30 + sub.recency * 15 + sub.source * 15

assess_quality(item) == Min(WeightedSum(SubScores(item)), ScoreScale)

\* ----------------------------------------------------------------- state
VARIABLES
    heap,                 \* the NewsItem objects of the caller, by identity
    heap_at_call,         \* heap as it was when filter_and_dedupe was called
    min_quality_score,    \* ContentFilter.min_quality_score, in thousandths
    duplicate_threshold,  \* ContentFilter.duplicate_threshold, in 1/SimScale
    pc,                   \* position in filter_and_dedupe
    round,                \* 1: first call; 2: the call on the first result
    news_items,           \* the list given to filter_and_dedupe (identities)
    quality_items,        \* result of filter_by_quality
    unique_items,         \* result of deduplicate
    sorted_items,         \* result of sort_by_relevance, the returned list
    first,                \* what the first call returned, and the heap then
    pair,                 \* two NewsItems whose fingerprints are compared
    fps,                  \* their fingerprints
    sims,                 \* the similarities computed from fps
    sim_pc,               \* position of the comparison
    a_item,               \* the NewsItem given to assess_quality
    a_sub,                \* its five sub-scores
    a_score,              \* the value assess_quality returned
    a_pc,                 \* position of the assessment
    keywords,             \* the keyword list a collecting tool filters by
    v_original,           \* the NewsItem given to the validator as original
    v_rewritten,          \* the NewsItem given to the validator as rewritten
    v_min_quality_score,  \* QualityController.min_quality_score, in thousandths
    v_result,             \* what validate_rewritten_content returned
    v_pc,                 \* position of the validation
    d_args,               \* the published_date a producer supplies, if any
    d_item,               \* the NewsItem constructed from it
    d_dict,               \* what to_dict made of the item
    d_pc,                 \* position in the life of that item
    s_issues,             \* the issue list given to _generate_suggestions
    s_suggestions,        \* the list it returned
    s_pc,                 \* position of that call
    calls,                \* the local state of each running filter_and_dedupe
    stop_words,           \* ContentFilter.stopwords
    selected_items,       \* run_news_collection: the items selected
    rewritten_items,      \* what _rewrite_news has appended so far
    formatted_items,      \* what _format_for_wechat has appended so far
    validated_items,      \* what _validate_quality has appended so far
    verdicts,             \* how the validation of each pair ended
    ag_pc,                \* position in run_news_collection
    ag_k,                 \* position of the running for loop in its list
    users,                \* UserManager.users
    sessions,             \* UserManager.sessions
    clock,                \* time.time(), in seconds
    tokens_issued,        \* how many tokens secrets.token_urlsafe has drawn
    returned              \* the last call of the UserManager and its result

vars == <<heap, heap_at_call, min_quality_score, duplicate_threshold, pc, round,
          news_items, quality_items, unique_items, sorted_items, first,
          pair, fps, sims, sim_pc, a_item, a_sub, a_score, a_pc,
          keywords, v_original, v_rewritten, v_min_quality_score, v_result, v_pc,
          d_args, d_item, d_dict, d_pc, s_issues, s_suggestions, s_pc,
          selected_items, rewritten_items, formatted_items, validated_items,
          verdicts, ag_pc, ag_k, users, sessions, clock, tokens_issued, returned,
          calls, stop_words>>

curation_vars == <<heap, heap_at_call, min_quality_score, duplicate_threshold, pc,
                   round, news_items, quality_items, unique_items, sorted_items, first>>
sim_vars == <<pair, fps, sims, sim_pc>>
assess_vars == <<a_item, a_sub, a_score, a_pc>>
validate_vars == <<v_original, v_rewritten, v_min_quality_score, v_result, v_pc>>
date_vars == <<d_args, d_item, d_dict, d_pc>>
suggest_vars == <<s_issues, s_suggestions, s_pc>>
conc_vars == <<calls, stop_words>>
agent_vars == <<selected_items, rewritten_items, formatted_items, validated_items,
                verdicts, ag_pc, ag_k>>
auth_vars == <<users, sessions, clock, tokens_issued, returned>>
run_vars == <<agent_vars, auth_vars>>
ext_vars == <<date_vars, suggest_vars, conc_vars, run_vars>>

\* --------------------------------------------------------- curation steps
\* a variant that stores the assessed score whatever the score was
OverwrittenScore(old, assessed) == assessed

\* filter_by_quality, line 78: item.score = max(item.score, quality_score)
RaisedScore(old, assessed) == Max(old, assessed)

\* filter_by_quality, lines 75-81, over news_items[k..]: the heap with the
\* scores raised, and the identities kept; the loop has no try, so an
\* exception of assess_quality ends it with the scores raised so far
RECURSIVE QualityLoop(_, _, _, _)
QualityLoop(h, items, k, kept) ==
    IF k > Len(items) THEN [heap |-> h, quality_items |-> kept, raised |-> FALSE]
    ELSE IF assess_raises(h[items[k]])
    THEN [heap |-> h, quality_items |-> <<>>, raised |-> TRUE]
    ELSE LET item == items[k]
             quality_score == assess_quality(h[item])
             h2 == [h EXCEPT ![item].score = RaisedScore(h[item].score, quality_score)]
         IN IF quality_score >= min_quality_score
            THEN QualityLoop(h2, items, k + 1, Append(kept, item))
            ELSE QualityLoop(h2, items, k + 1, kept)

filter_by_quality(h, items) == QualityLoop(h, items, 1, <<>>)

\* a variant of the key order that forgets the published_date tie-break
KeyLessByScore(x, y) == x.score < y.score

\* a variant of the key order under which equal keys change places
KeyLessOrEqual(x, y) ==
    \/ x.score < y.score
    \/ x.score = y.score /\ x.published_date <= y.published_date

\* the sort key (x.score, x.published_date), compared as Python tuples
KeyLess(x, y) ==
    \/ x.score < y.score
    \/ x.score = y.score /\ x.published_date < y.published_date

\* sorted(..., reverse=True) is stable: an item goes behind every item whose
\* key is not smaller than its own
RECURSIVE InsertDesc(_, _, _)
InsertDesc(h, sorted, item) ==
    IF sorted = <<>> THEN <<item>>
    ELSE IF KeyLess(h[Head(sorted)], h[item])
         THEN <<item>> \o sorted
         ELSE <<Head(sorted)>> \o InsertDesc(h, Tail(sorted), item)

RECURSIVE SortLoop(_, _, _, _)
SortLoop(h, items, k, sorted) ==
    IF k > Len(items) THEN sorted
    ELSE SortLoop(h, items, k + 1, InsertDesc(h, sorted, items[k]))

\* a variant that sorts the items into the list it was given
sort_by_relevance_appending(h, items) == SortLoop(h, items, 1, items)

sort_by_relevance(h, items) == SortLoop(h, items, 1, <<>>)

\* a variant that takes only a strictly greater similarity as a duplicate
IsDuplicateStrict(fingerprint, seen_fingerprints) ==
    \E n \in 1..Len(seen_fingerprints) :
        calculate_fingerprint_similarity(fingerprint, seen_fingerprints[n])
            > duplicate_threshold

\* a variant that compares with the fingerprint seen last only
IsDuplicateOfLast(fingerprint, seen_fingerprints) ==
    /\ seen_fingerprints # <<>>
    /\ calculate_fingerprint_similarity(fingerprint,
                                        seen_fingerprints[Len(seen_fingerprints)])
           >= duplicate_threshold

\* deduplicate, lines 106-111: is the fingerprint a duplicate of a seen one
IsDuplicate(fingerprint, seen_fingerprints) ==
    \E n \in 1..Len(seen_fingerprints) :
        calculate_fingerprint_similarity(fingerprint, seen_fingerprints[n])
            >= duplicate_threshold

\* a variant that remembers the fingerprint of a dropped item too
RememberAll(seen_fingerprints, fingerprint, is_duplicate) ==
    Append(seen_fingerprints, fingerprint)

\* deduplicate, lines 113-115: the fingerprints remembered after an item
Remember(seen_fingerprints, fingerprint, is_duplicate) ==
    IF ~is_duplicate THEN Append(seen_fingerprints, fingerprint)
    ELSE seen_fingerprints

\* deduplicate, lines 101-115, over news_items[k..]
RECURSIVE DedupLoop(_, _, _, _, _)
DedupLoop(h, items, k, uniq, seen_fingerprints) ==
    IF k > Len(items) THEN uniq
    ELSE LET item == items[k]
             fingerprint == calculate_fingerprint(h[item])
             is_duplicate == IsDuplicate(fingerprint, seen_fingerprints)
         IN DedupLoop(h, items, k + 1,
                      IF ~is_duplicate THEN Append(uniq, item) ELSE uniq,
                      Remember(seen_fingerprints, fingerprint, is_duplicate))

\* a variant that removes duplicates from the list in rank order
deduplicate_ranked(h, items) ==
    IF items = <<>> THEN <<>>
    ELSE DedupLoop(h, sort_by_relevance(h, items), 1, <<>>, <<>>)

deduplicate(h, items) ==
    IF items = <<>> THEN <<>> ELSE DedupLoop(h, items, 1, <<>>, <<>>)

\* ---------------------------------------------------------------- inputs
TitleGN == <<"GPT", " ", "news">>
TitleG == <<"GPT">>
TitleN == <<"news">>
TitlePipe == <<"GPT", "|", "news">>

\* contents; the text holds the tokens of the content that carry its tags
ContentEmpty == Content(<<>>, 0, 1, 0, TRUE, FALSE, FALSE)
ContentA == Content(<<"OpenAI", " ", "model">>, 1200, 3, 50, TRUE, TRUE, FALSE)
ContentB == Content(<<"OpenAI", " ", "model", " ", "agent">>, 1200, 3, 50, TRUE, TRUE, FALSE)
ContentC == Content(<<"agent">>, 1200, 3, 50, TRUE, TRUE, FALSE)

\* a content on which the keyword extractor raises, and one on which the
\* readability measure raises
ContentFault == Content(<<"model", " ", Unparseable>>, 1200, 3, 50, TRUE, TRUE, FALSE)
ContentUnreadable == Content(<<"OpenAI", " ", "news">>, 1200, 3, 0, FALSE, TRUE, FALSE)

\* url of the object at a position of the caller's list
Urls == <<"https://a", "https://b", "https://c", "https://d", "https://e">>

\* the items a producer may hand over (url left open)
Catalogue ==
    { NewsItem(TitleGN, ContentA, "", "arxiv", Now - 10, 0),
      NewsItem(TitleGN, ContentB, "", "arxiv", Now, 900),
      NewsItem(TitleGN, ContentC, "", "arxiv", Now, 0),
      NewsItem(TitleG, ContentC, "", "arxiv", Now, 0),
      NewsItem(TitleN, ContentA, "", "arxiv", Now, 0),
      NewsItem(TitleGN, ContentEmpty, "", "blog", Now - 100, 900),
      NewsItem(TitlePipe, ContentA, "", "arxiv", Now, 0) }

\* configured thresholds: 0.0 and the default 0.6; the default 0.8 and 1.0
MinQualityScores == {0, 600}
DuplicateThresholds == {(SimScale * 8) \div 10, SimScale}

Lists == UNION {[1..n -> Catalogue] : n \in 0..MaxLen}

IdleSim == /\ pair = <<>> /\ fps = <<>> /\ sims = <<>> /\ sim_pc = "idle"
IdleAssess == /\ a_item = <<>> /\ a_sub = <<>> /\ a_score = 0 /\ a_pc = "idle"
IdleDate == /\ d_args = <<>> /\ d_item = <<>> /\ d_dict = <<>> /\ d_pc = "idle"
IdleSuggest == /\ s_issues = <<>> /\ s_suggestions = <<>> /\ s_pc = "idle"
IdleConc == calls = <<>> /\ stop_words = {}
IdleAgent ==
    /\ selected_items = <<>> /\ rewritten_items = <<>> /\ formatted_items = <<>>
    /\ validated_items = <<>> /\ verdicts = <<>> /\ ag_pc = "idle" /\ ag_k = 0
IdleAuth ==
    /\ users = <<>> /\ sessions = <<>> /\ clock = 0 /\ tokens_issued = 0
    /\ returned = <<>>
IdleRun == IdleAgent /\ IdleAuth
IdleExt == IdleDate /\ IdleSuggest /\ IdleConc /\ IdleRun
IdleValidate ==
    /\ v_original = <<>> /\ v_rewritten = <<>> /\ v_min_quality_score = 0
    /\ v_result = <<>> /\ v_pc = "idle"
IdleCuration ==
    /\ heap = <<>> /\ heap_at_call = <<>>
    /\ min_quality_score = 0 /\ duplicate_threshold = 0
    /\ pc = "idle" /\ round = 0
    /\ news_items = <<>> /\ quality_items = <<>> /\ unique_items = <<>>
    /\ sorted_items = <<>> /\ first = <<>> /\ keywords = <<>>

\* ------------------------------------------------------------- curation
\* a ContentFilter is constructed and a caller holds a list of NewsItems
Init ==
    /\ \E l \in Lists : heap = [i \in 1..Len(l) |-> [l[i] EXCEPT !.url = Urls[i]]]
    /\ heap_at_call = heap
    /\ min_quality_score \in MinQualityScores
    /\ duplicate_threshold \in DuplicateThresholds
    /\ pc = "call"
    /\ round = 1
    /\ news_items = [i \in 1..Len(heap) |-> i]
    /\ quality_items = <<>>
    /\ unique_items = <<>>
    /\ sorted_items = <<>>
    /\ first = <<>>
    /\ keywords = <<>>
    /\ IdleSim
    /\ IdleAssess
    /\ IdleValidate
    /\ IdleExt

\* filter_and_dedupe, lines 45-46: an empty list is returned at once
ReturnEmpty ==
    /\ pc = "call"
    /\ news_items = <<>>
    /\ sorted_items' = <<>>
    /\ pc' = "done"
    /\ UNCHANGED <<heap, heap_at_call, min_quality_score, duplicate_threshold, round,
                   news_items, quality_items, unique_items, first>>
    /\ UNCHANGED <<sim_vars, assess_vars, keywords, validate_vars, ext_vars>>

\* filter_and_dedupe, line 51
FilterByQuality ==
    /\ pc = "call"
    /\ news_items # <<>>
    /\ LET r == filter_by_quality(heap, news_items)
       IN /\ heap' = r.heap
          /\ quality_items' = r.quality_items
          /\ pc' = IF r.raised THEN "raised" ELSE "quality"
    /\ UNCHANGED <<heap_at_call, min_quality_score, duplicate_threshold, round,
                   news_items, unique_items, sorted_items, first>>
    /\ UNCHANGED <<sim_vars, assess_vars, keywords, validate_vars, ext_vars>>

\* filter_and_dedupe, line 55
Deduplicate ==
    /\ pc = "quality"
    /\ unique_items' = deduplicate(heap, quality_items)
    /\ pc' = "unique"
    /\ UNCHANGED <<heap, heap_at_call, min_quality_score, duplicate_threshold, round,
                   news_items, quality_items, sorted_items, first>>
    /\ UNCHANGED <<sim_vars, assess_vars, keywords, validate_vars, ext_vars>>

\* a variant of the sort step that sorts the list it was given in place
SortInPlace ==
    /\ pc = "unique"
    /\ sorted_items' = sort_by_relevance(heap, unique_items)
    /\ unique_items' = sorted_items'
    /\ pc' = "done"
    /\ UNCHANGED <<heap, heap_at_call, min_quality_score, duplicate_threshold, round,
                   news_items, quality_items, first>>
    /\ UNCHANGED <<sim_vars, assess_vars, keywords, validate_vars, ext_vars>>

\* filter_and_dedupe, lines 59-61
SortByRelevance ==
    /\ pc = "unique"
    /\ sorted_items' = sort_by_relevance(heap, unique_items)
    /\ pc' = "done"
    /\ UNCHANGED <<heap, heap_at_call, min_quality_score, duplicate_threshold, round,
                   news_items, quality_items, unique_items, first>>
    /\ UNCHANGED <<sim_vars, assess_vars, keywords, validate_vars, ext_vars>>

\* the caller hands the returned list to filter_and_dedupe again
CurateAgain ==
    /\ pc = "done"
    /\ round = 1
    /\ first' = [result |-> sorted_items, heap |-> heap]
    /\ news_items' = sorted_items
    /\ heap_at_call' = heap
    /\ quality_items' = <<>>
    /\ unique_items' = <<>>
    /\ sorted_items' = <<>>
    /\ round' = 2
    /\ pc' = "call"
    /\ UNCHANGED <<heap, min_quality_score, duplicate_threshold>>
    /\ UNCHANGED <<sim_vars, assess_vars, keywords, validate_vars, ext_vars>>

Next ==
    \/ ReturnEmpty
    \/ FilterByQuality
    \/ Deduplicate
    \/ SortByRelevance
    \/ CurateAgain

Spec == Init /\ [][Next]_vars

\* --------------------------------------------------- claims on curation
\* similarity of the fingerprints of every two objects of the heap
SimMatrix ==
    LET fp == [i \in 1..Len(heap) |-> calculate_fingerprint(heap[i])]
    IN [i \in 1..Len(heap) |->
           [j \in 1..Len(heap) |-> calculate_fingerprint_similarity(fp[i], fp[j])]]

\* the elements of a list at the positions of a set, in list order
RECURSIVE AtPositions(_, _, _)
AtPositions(items, k, P) ==
    IF k > Len(items) THEN <<>>
    ELSE (IF k \in P THEN <<items[k]>> ELSE <<>>) \o AtPositions(items, k + 1, P)

\* position p of quality_items is accepted when no accepted earlier position
\* holds an item at least duplicate_threshold similar to it (S: similarities)
AcceptedPositions(S) ==
    LET Acc[p \in 1..Len(quality_items)] ==
            \A q \in 1..(p - 1) :
                Acc[q] => S[quality_items[p]][quality_items[q]] < duplicate_threshold
    IN {p \in 1..Len(quality_items) : Acc[p]}

\* position of an element in a list without repetitions
PosIn(items, x) == CHOOSE k \in 1..Len(items) : items[k] = x

AfterDedup == pc \in {"unique", "done"} /\ news_items # <<>>

\* C1: deduplicate is one left-to-right pass: an item is dropped exactly when
\* it is at least duplicate_threshold similar to an item accepted earlier in
\* the pass (dropped items are not compared against), the first item is
\* accepted, and the output keeps the order of the input.
C1_GreedyPass ==
    AfterDedup =>
        /\ unique_items = AtPositions(quality_items, 1, AcceptedPositions(SimMatrix))
        /\ quality_items # <<>> => unique_items[1] = quality_items[1]

\* C1 witness: an item is dropped, and a later item that is a near-duplicate
\* of the dropped one only is accepted.
C1_Witness ==
    /\ AfterDedup
    /\ LET S == SimMatrix
           acc == AcceptedPositions(S)
           out == Range(unique_items)
       IN \E p, q, r \in 1..Len(quality_items) :
             /\ p < q /\ q < r
             /\ p \in acc /\ q \notin acc /\ r \in acc
             /\ S[quality_items[q]][quality_items[r]] >= duplicate_threshold
             /\ quality_items[q] \notin out
             /\ quality_items[r] \in out

\* C2 as stated: of every pair i < j of the list given to deduplicate whose
\* similarity is at least duplicate_threshold, the later item is not in the
\* output.
C2_LaterOfEveryPairDropped ==
    AfterDedup =>
        LET S == SimMatrix
            out == Range(unique_items)
        IN \A i, j \in 1..Len(quality_items) :
              (i < j /\ S[quality_items[i]][quality_items[j]] >= duplicate_threshold)
                  => quality_items[j] \notin out

\* C2 amended: of every pair i < j whose similarity is at least
\* duplicate_threshold and whose earlier item i is in the output, the later
\* item j is not in the output.
C2_LaterOfAcceptedDropped ==
    AfterDedup =>
        LET S == SimMatrix
            out == Range(unique_items)
        IN \A i, j \in 1..Len(quality_items) :
              (/\ i < j
               /\ quality_items[i] \in out
               /\ S[quality_items[i]][quality_items[j]] >= duplicate_threshold)
                  => quality_items[j] \notin out

\* C2 witness: an accepted item and a later item exactly at the threshold.
C2_Witness ==
    /\ AfterDedup
    /\ LET S == SimMatrix
           out == Range(unique_items)
       IN \E i, j \in 1..Len(quality_items) :
             /\ i < j
             /\ quality_items[i] \in out
             /\ S[quality_items[i]][quality_items[j]] = duplicate_threshold
             /\ quality_items[j] \notin out

\* C3: dedup sees the survivors of the quality filter in input order, not in
\* rank order: the survivors are handed on in input order, and when A,
\* accepted by the pass over that order, precedes a near-duplicate B in the
\* input and both pass the quality filter, the returned list holds A and not
\* B, whatever their scores.
C3_DedupInInputOrder ==
    (pc = "done" /\ news_items # <<>>) =>
        LET S == SimMatrix
            acc == AcceptedPositions(S)
            passed == Range(quality_items)
            out == Range(sorted_items)
        IN /\ quality_items =
                  AtPositions(news_items, 1,
                              {k \in 1..Len(news_items) : news_items[k] \in passed})
           /\ \A p, q \in 1..Len(news_items) :
                 (/\ p < q
                  /\ news_items[p] \in passed
                  /\ news_items[q] \in passed
                  /\ PosIn(quality_items, news_items[p]) \in acc
                  /\ S[news_items[p]][news_items[q]] >= duplicate_threshold)
                     => /\ news_items[p] \in out
                        /\ news_items[q] \notin out

\* C3 witness: the dropped later item has the strictly higher score.
C3_Witness ==
    /\ pc = "done" /\ round = 1
    /\ LET S == SimMatrix
       IN \E p, q \in 1..Len(news_items) :
             /\ p < q
             /\ news_items[p] \in Range(quality_items)
             /\ news_items[q] \in Range(quality_items)
             /\ S[news_items[p]][news_items[q]] >= duplicate_threshold
             /\ heap[news_items[q]].score > heap[news_items[p]].score
             /\ news_items[p] \in Range(sorted_items)
             /\ news_items[q] \notin Range(sorted_items)

AfterFilter == pc \in {"quality", "unique", "done"} /\ news_items # <<>>

\* every score is max(previous score, assessed score)
ScoresRaised ==
    \A k \in 1..Len(news_items) :
        LET i == news_items[k]
        IN heap[i].score = Max(heap_at_call[i].score, assess_quality(heap_at_call[i]))

\* C4 as stated: every score becomes max(previous, assessed) and an item is
\* dropped exactly when that updated score is below min_quality_score.
C4_DroppedByUpdatedScore ==
    AfterFilter =>
        /\ ScoresRaised
        /\ \A k \in 1..Len(news_items) :
              news_items[k] \in Range(quality_items)
                  <=> heap[news_items[k]].score >= min_quality_score

\* C4 amended: every score becomes max(previous, assessed) and an item is
\* dropped exactly when its assessed score is below min_quality_score.
C4_DroppedByAssessedScore ==
    AfterFilter =>
        /\ ScoresRaised
        /\ \A k \in 1..Len(news_items) :
              news_items[k] \in Range(quality_items)
                  <=> assess_quality(heap_at_call[news_items[k]]) >= min_quality_score

\* C4 witness: an item supplied with a score at or above the threshold is
\* dropped because its assessed score is below it, and keeps its score.
C4_Witness ==
    /\ AfterFilter
    /\ \E k \in 1..Len(news_items) :
          LET i == news_items[k]
          IN /\ heap_at_call[i].score >= min_quality_score
             /\ assess_quality(heap_at_call[i]) < min_quality_score
             /\ heap[i].score = heap_at_call[i].score
             /\ i \notin Range(quality_items)

\* C5: the returned list is sorted descending by (score, published_date),
\* and items equal in both keys keep the order they had after dedup.
C5_RankedStable ==
    (pc = "done" /\ news_items # <<>>) =>
        /\ Len(sorted_items) = Len(unique_items)
        /\ Range(sorted_items) = Range(unique_items)
        /\ \A k \in 1..(Len(sorted_items) - 1) :
              LET a == heap[sorted_items[k]]
                  b == heap[sorted_items[k + 1]]
              IN \/ a.score > b.score
                 \/ /\ a.score = b.score
                    /\ a.published_date >= b.published_date
        /\ \A k, l \in 1..Len(sorted_items) :
              (/\ k < l
               /\ heap[sorted_items[k]].score = heap[sorted_items[l]].score
               /\ heap[sorted_items[k]].published_date
                      = heap[sorted_items[l]].published_date)
                  => PosIn(unique_items, sorted_items[k])
                         < PosIn(unique_items, sorted_items[l])

\* C5 witness: the sort moved an item, broke a tie of scores by date, and
\* kept two items equal in both keys in their order.
C5_Witness ==
    /\ pc = "done"
    /\ sorted_items # unique_items
    /\ \E k \in 1..(Len(sorted_items) - 1) :
          /\ heap[sorted_items[k]].score = heap[sorted_items[k + 1]].score
          /\ heap[sorted_items[k]].published_date
                 > heap[sorted_items[k + 1]].published_date
    /\ \E k \in 1..(Len(sorted_items) - 1) :
          /\ heap[sorted_items[k]].score = heap[sorted_items[k + 1]].score
          /\ heap[sorted_items[k]].published_date
                 = heap[sorted_items[k + 1]].published_date

\* C6: applying filter_and_dedupe to its own output returns the same items
\* in the same order with the same scores.
C6_Idempotent ==
    (pc = "done" /\ round = 2) =>
        /\ sorted_items = first.result
        /\ heap = first.heap

\* C6 witness: the second call returned, on a first result that had dropped
\* a low-quality item and a duplicate and had reordered the rest.
C6_Witness ==
    /\ pc = "done" /\ round = 2
    /\ Len(first.result) >= 2
    /\ Len(first.result) < Len(heap)
    /\ \E k \in 1..(Len(first.result) - 1) : first.result[k] > first.result[k + 1]

\* C9 as stated: two items with the same title and identical content but
\* different urls have similarity 1.0, and filter_and_dedupe([A, B]) with
\* min_quality_score 0.0 and duplicate_threshold 0.8 returns exactly [A].
C9_SameTextFirstWins ==
    (/\ pc = "done" /\ round = 1
     /\ Len(news_items) = 2
     /\ heap[1].title = heap[2].title
     /\ heap[1].content = heap[2].content
     /\ heap[1].url # heap[2].url
     /\ min_quality_score = 0
     /\ duplicate_threshold = (SimScale * 8) \div 10)
        => /\ SimMatrix[1][2] = SimScale
           /\ sorted_items = <<1>>

\* ------------------------------------------------- fingerprint comparison
TitleEmpty == <<>>
TitleStop == <<"the">>
TitleStopN == <<"the", " ", "news">>
TitleColon == <<"GPT", ":", " ", "news">>
TitleHuge == <<"W101">>

SimTitles == {TitleEmpty, TitleG, TitleN, TitleGN, TitlePipe, TitleStop, TitleStopN,
              TitleColon}
SimContents == {ContentEmpty, ContentA, ContentB, ContentC}
SimItems ==
    {NewsItem(t, c, "", "arxiv", Now, 0) : t \in SimTitles, c \in SimContents}

\* two NewsItems, from different producers, are about to be compared
InitSim ==
    /\ \E x, y \in SimItems :
          pair = <<[x EXCEPT !.url = Urls[1]], [y EXCEPT !.url = Urls[2]]>>
    /\ fps = <<>>
    /\ sims = <<>>
    /\ sim_pc = "items"
    /\ IdleCuration
    /\ IdleAssess
    /\ IdleValidate
    /\ IdleExt

\* _calculate_fingerprint of both items
Fingerprint ==
    /\ sim_pc = "items"
    /\ fps' = <<calculate_fingerprint(pair[1]), calculate_fingerprint(pair[2])>>
    /\ sim_pc' = "fingerprinted"
    /\ UNCHANGED <<pair, sims>>
    /\ UNCHANGED <<curation_vars, assess_vars, keywords, validate_vars, ext_vars>>

\* _calculate_fingerprint_similarity in both directions and of the first
\* fingerprint with itself
Compare ==
    /\ sim_pc = "fingerprinted"
    /\ sims' = [ab |-> calculate_fingerprint_similarity(fps[1], fps[2]),
                ba |-> calculate_fingerprint_similarity(fps[2], fps[1]),
                aa |-> calculate_fingerprint_similarity(fps[1], fps[1])]
    /\ sim_pc' = "compared"
    /\ UNCHANGED <<pair, fps>>
    /\ UNCHANGED <<curation_vars, assess_vars, keywords, validate_vars, ext_vars>>

NextSim == Fingerprint \/ Compare

SpecSim == InitSim /\ [][NextSim]_vars

\* C7 as stated: the similarity of the fingerprint of any NewsItem with
\* itself is 1.0.
C7_SelfSimilarityOne == sim_pc = "compared" => sims.aa = SimScale

\* C8: similarity is symmetric.
C8_Symmetric == sim_pc = "compared" => sims.ab = sims.ba

\* C8 witness: two different fingerprints that are neither unrelated nor
\* equal in every part were compared, with title word sets of different
\* sizes.
C8_Witness ==
    /\ sim_pc = "compared"
    /\ fps[1] # fps[2]
    /\ sims.ab > 0 /\ sims.ab < SimScale
    /\ Len(pair[1].title) # Len(pair[2].title)
    /\ pair[1].content # pair[2].content

\* ------------------------------------------------------------ assessment
AssessTitles == {TitleEmpty, TitleG, TitleN, TitleColon, TitleHuge,
                 <<"GPT", ":", " ", "news", " ", "model">>}
AssessTexts == {<<"agent">>,
                <<"OpenAI", " ", "model", " ", "agent">>,
                <<"OpenAI", " ", "model", " ", "agent", " ", "GPT", " ", "news">>}
AssessContents ==
    {ContentEmpty, ContentFault} \cup
    {Content(t, n, p, r[1], r[2], u, pct) :
        t \in AssessTexts, n \in {99, 100, 299, 300, 999, 1000},
        p \in {1, 2, 3},
        r \in {<<29, TRUE>>, <<30, TRUE>>, <<70, TRUE>>, <<71, TRUE>>, <<0, FALSE>>},
        u \in BOOLEAN, pct \in BOOLEAN}
AssessAges == {0, 1, 3, 7, 10, 14, 30, 90, 100}
AssessSources == {"arxiv_cs", "github_trending", "huggingface_models", "web_search",
                  "blog"}

\* a NewsItem is about to be assessed
InitAssess ==
    /\ \E t \in AssessTitles, c \in AssessContents, d \in AssessAges,
          src \in AssessSources :
          a_item = NewsItem(t, c, Urls[1], src, Now - d, 0)
    /\ a_sub = <<>>
    /\ a_score = 0
    /\ a_pc = "item"
    /\ IdleCuration
    /\ IdleSim
    /\ IdleValidate
    /\ IdleExt

\* assess_quality
AssessQuality ==
    /\ a_pc = "item"
    /\ IF assess_raises(a_item)
       THEN /\ a_pc' = "raised"
            /\ UNCHANGED <<a_sub, a_score>>
       ELSE /\ a_sub' = SubScores(a_item)
            /\ a_score' = assess_quality(a_item)
            /\ a_pc' = "assessed"
    /\ UNCHANGED a_item
    /\ UNCHANGED <<curation_vars, sim_vars, keywords, validate_vars, ext_vars>>

NextAssess == AssessQuality

SpecAssess == InitAssess /\ [][NextAssess]_vars

\* C10: assess_quality returns a value in [0,1]: each of the five sub-scores
\* is in [0,1] and they are combined with the weights 0.20, 0.20, 0.30, 0.15,
\* 0.15, capped at 1.0.
C10_ScoreInUnitInterval ==
    a_pc = "assessed" =>
        /\ 0 <= a_score /\ a_score <= ScoreScale
        /\ \A f \in DOMAIN a_sub : 0 <= a_sub[f] /\ a_sub[f] <= 10
        /\ a_score = Min(a_sub.len * 20 + a_sub.title * 20 + a_sub.richness * 30
                           + a_sub.recency * 15 + a_sub.source * 15, ScoreScale)

\* C10 witness: an item whose title and richness sub-scores are both 1.0 and
\* whose composite is above 0.95 was assessed.
C10_Witness ==
    /\ a_pc = "assessed"
    /\ a_sub.title = 10 /\ a_sub.richness = 10 /\ a_sub.len = 10
    /\ a_score > 950

\* ------------------------------------------------------ collecting tools
\* BaseNewsTool.filter_by_keywords, lines 247-261: the score of one item, in
\* thousandths; "keyword.lower() in text" is membership among the symbols
keyword_score(item, kws) ==
    LET text == item.title \o <<" ">> \o item.content.text
        in_text == {k \in 1..Len(kws) : kws[k] \in Range(text)}
        in_title == {k \in 1..Len(kws) : kws[k] \in Range(item.title)}
        score == Cardinality(in_text) * ScoreScale
                 + Cardinality(in_title) * (ScoreScale \div 2)
    IN IF kws # <<>> THEN score \div Len(kws) ELSE 0

\* filtered_items.sort(key=lambda x: x.score, reverse=True), line 267
RECURSIVE InsertByScore(_, _, _)
InsertByScore(h, sorted, item) ==
    IF sorted = <<>> THEN <<item>>
    ELSE IF h[Head(sorted)].score < h[item].score
         THEN <<item>> \o sorted
         ELSE <<Head(sorted)>> \o InsertByScore(h, Tail(sorted), item)

RECURSIVE SortByScore(_, _, _, _)
SortByScore(h, items, k, sorted) ==
    IF k > Len(items) THEN sorted
    ELSE SortByScore(h, items, k + 1, InsertByScore(h, sorted, items[k]))

\* filter_by_keywords, lines 246-268, over news_items[k..]
RECURSIVE KeywordLoop(_, _, _, _, _, _)
KeywordLoop(h, items, kws, min_score, k, kept) ==
    IF k > Len(items)
    THEN [heap |-> h, filtered_items |-> SortByScore(h, kept, 1, <<>>)]
    ELSE LET item == items[k]
             h2 == [h EXCEPT ![item].score = keyword_score(h[item], kws)]
         IN IF h2[item].score >= min_score
            THEN KeywordLoop(h2, items, kws, min_score, k + 1, Append(kept, item))
            ELSE KeywordLoop(h2, items, kws, min_score, k + 1, kept)

filter_by_keywords(h, items, kws, min_score) ==
    KeywordLoop(h, items, kws, min_score, 1, <<>>)

\* a repo_info as _get_repo_info builds it; updated_at is <<>> when absent
\* and <<d>> when the last update was d days ago
RepoInfo(stars, forks, updated_at, open_issues, popular_language) ==
    [stars |-> stars, forks |-> forks, updated_at |-> updated_at,
     open_issues |-> open_issues, popular_language |-> popular_language]

\* GitHubTrendingTool._calculate_repo_score, in thousandths
calculate_repo_score(repo_info) ==
    LET by_stars == (Min(repo_info.stars, 10 * ScoreScale) * 4) \div 10
        by_forks == (Min(repo_info.forks, 5 * 100) * 10 * 2) \div 10
        by_activity ==
            IF repo_info.updated_at = <<>> THEN 0
            ELSE LET days_since_update == repo_info.updated_at[1]
                 IN IF days_since_update < 7 THEN 2 * ScoreScale
                    ELSE IF days_since_update < 30 THEN ScoreScale
                    ELSE IF days_since_update < 90 THEN ScoreScale \div 2
                    ELSE 0
        by_issues == IF repo_info.open_issues < 10 THEN ScoreScale \div 2
                     ELSE IF repo_info.open_issues > 100 THEN 0 - (ScoreScale \div 2)
                     ELSE 0
        by_language == IF repo_info.popular_language THEN 3 * (ScoreScale \div 10) ELSE 0
    IN Max(by_stars + by_forks + by_activity + by_issues + by_language, 0)

\* what the collecting tools are given
KeywordLists == {<<>>, <<"GPT">>, <<"GPT", "news">>, <<"agent", "OpenAI">>}
Repos == {RepoInfo(0, 0, <<>>, 50, FALSE),
          RepoInfo(500, 50, <<40>>, 200, FALSE),
          RepoInfo(20 * ScoreScale, ScoreScale, <<1>>, 5, TRUE)}
GithubCatalogue == {NewsItem(TitleGN, ContentA, "", "github", Now, 0),
                    NewsItem(TitleN, ContentB, "", "github", Now - 10, 0)}
GithubLists == UNION {[1..n -> GithubCatalogue] : n \in 1..MaxLen}

\* the items a collecting tool has constructed, before it scores them
InitProducer ==
    /\ \E l \in Lists \cup GithubLists :
           heap = [i \in 1..Len(l) |-> [l[i] EXCEPT !.url = Urls[i]]]
    /\ heap_at_call = heap
    /\ min_quality_score \in MinQualityScores
    /\ duplicate_threshold \in DuplicateThresholds
    /\ pc = "produced"
    /\ round = 1
    /\ news_items = [i \in 1..Len(heap) |-> i]
    /\ quality_items = <<>>
    /\ unique_items = <<>>
    /\ sorted_items = <<>>
    /\ first = <<>>
    /\ keywords \in IF \E i \in DOMAIN heap : heap[i].source = "github"
                    THEN {<<>>} ELSE KeywordLists
    /\ IdleSim
    /\ IdleAssess
    /\ IdleValidate
    /\ IdleExt

\* arxiv_search.py line 157, web_search.py line 130: the tool filters what
\* it found by its keywords, with min_score = 0.1, and the agent curates that
FilterByKeywords ==
    /\ pc = "produced"
    /\ \A i \in DOMAIN heap : heap[i].source # "github"
    /\ LET r == filter_by_keywords(heap, news_items, keywords, ScoreScale \div 10)
       IN /\ heap' = r.heap
          /\ heap_at_call' = r.heap
          /\ news_items' = r.filtered_items
    /\ pc' = "call"
    /\ UNCHANGED <<min_quality_score, duplicate_threshold, round, quality_items,
                   unique_items, sorted_items, first, keywords>>
    /\ UNCHANGED <<sim_vars, assess_vars, validate_vars, ext_vars>>

\* github_trending.py line 164: every item gets the score of its repository
ScoreRepos ==
    /\ pc = "produced"
    /\ heap # <<>>
    /\ \A i \in DOMAIN heap : heap[i].source = "github"
    /\ \E repo_info \in [DOMAIN heap -> Repos] :
           heap' = [i \in DOMAIN heap |->
                       [heap[i] EXCEPT !.score = calculate_repo_score(repo_info[i])]]
    /\ heap_at_call' = heap'
    /\ pc' = "call"
    /\ UNCHANGED <<min_quality_score, duplicate_threshold, round, news_items,
                   quality_items, unique_items, sorted_items, first, keywords>>
    /\ UNCHANGED <<sim_vars, assess_vars, validate_vars, ext_vars>>

NextProducer ==
    \/ FilterByKeywords
    \/ ScoreRepos
    \/ ReturnEmpty
    \/ FilterByQuality
    \/ Deduplicate
    \/ SortByRelevance

SpecProducer == InitProducer /\ [][NextProducer]_vars

\* C11: the score of every NewsItem is within [0,1] in every reachable state:
\* after construction, after filter_by_keywords (or the repository scoring of
\* the GitHub tool) and after filter_by_quality
C11_ScoreAlwaysInUnitInterval ==
    \A i \in DOMAIN heap : heap[i].score >= 0 /\ heap[i].score <= ScoreScale

\* C12: the Quality Assessor only ever raises a score: no step of any
\* sequence of curation calls lowers the score of an item, and the step of
\* filter_by_quality leaves every item it was given with the score
\* max(score before the call, assess_quality(item)).
C12_ScoreOnlyRaised ==
    [][/\ \A i \in DOMAIN heap : heap'[i].score >= heap[i].score
       /\ FilterByQuality =>
              \A k \in DOMAIN news_items :
                  LET item == news_items[k]
                  IN heap'[item].score =
                         Max(heap[item].score, assess_quality(heap[item]))]_vars

\* C12 witness: the second call of filter_by_quality has run; one item kept
\* a score above its assessment, another holds the assessment it was raised to.
C12_Witness ==
    /\ round = 2
    /\ pc = "quality"
    /\ \E i \in Range(news_items) :
           /\ heap[i].score > assess_quality(heap[i])
           /\ heap[i].score = first.heap[i].score
    /\ \E j \in Range(news_items) :
           /\ heap_at_call[j].score = assess_quality(heap[j])
           /\ heap[j].score = assess_quality(heap[j])
           /\ heap[j].score > 0

\* ------------------------------------------------------ quality control
\* Sub-scores of the validator are in hundredths, its composite score in
\* thousandths.  The issue strings of the code are named by what they say.

\* the content of a rewritten item, by what the four checks observe of it:
\* its tokens, len(content), len(content.split('\n\n')), the number of parts
\* re.split(r'[。！？]', content) gives and the characters of the non-blank
\* ones, the URLs it embeds, and the marks of its format
Article(text, length, paragraphs, n_sentences, sentence_chars, urls, starts_hash, has_h2, has_bold, has_star, has_emoji) ==
    [text |-> text, length |-> length, paragraphs |-> paragraphs,
     n_sentences |-> n_sentences, sentence_chars |-> sentence_chars,
     urls |-> urls, starts_hash |-> starts_hash, has_h2 |-> has_h2,
     has_bold |-> has_bold, has_star |-> has_star, has_emoji |-> has_emoji]

\* a variant of the length check that follows the assessor's buckets
check_length_as_assessor(content) ==
    [score |-> LengthScore(content.length) * 10, issues |-> <<>>]

\* QualityController._check_length
check_length(content) ==
    LET length == content.length
    IN IF length < 500 THEN [score |-> 30, issues |-> <<"too_short">>]
       ELSE IF length < 800 THEN [score |-> 60, issues |-> <<>>]
       ELSE IF length <= 3000 THEN [score |-> 100, issues |-> <<>>]
       ELSE [score |-> 70, issues |-> <<"too_long">>]

\* a variant of the completeness check that forgets the URL penalty
UrlPenaltyNone(score) == score

\* _check_completeness, line 137: result['score'] *= 0.9
UrlPenalty(score) == (score * 9) \div 10

\* a variant of the retention table whose rates must be exceeded
retention_check_above(retained, total) ==
    IF total # 0
    THEN IF 10 * retained > 7 * total THEN [score |-> 100, issues |-> <<>>]
         ELSE IF 10 * retained > 5 * total THEN [score |-> 80, issues |-> <<>>]
         ELSE IF 10 * retained > 3 * total
              THEN [score |-> 60, issues |-> <<"partial_loss">>]
              ELSE [score |-> 30, issues |-> <<"major_loss">>]
    ELSE [score |-> 50, issues |-> <<>>]

\* _check_completeness, lines 118-132: retention_rate is retained / total
retention_check(retained, total) ==
    IF total # 0
    THEN IF 10 * retained >= 7 * total THEN [score |-> 100, issues |-> <<>>]
         ELSE IF 10 * retained >= 5 * total THEN [score |-> 80, issues |-> <<>>]
         ELSE IF 10 * retained >= 3 * total
              THEN [score |-> 60, issues |-> <<"partial_loss">>]
              ELSE [score |-> 30, issues |-> <<"major_loss">>]
    ELSE [score |-> 50, issues |-> <<>>]

\* QualityController._check_completeness
check_completeness(original, rewritten) ==
    LET original_keywords == Range(extract_tags(original.content.text, 20))
        rewritten_keywords == Range(extract_tags(rewritten.content.text, 20))
        retained == Cardinality(original_keywords \cap rewritten_keywords)
        total == Cardinality(original_keywords)
        by_keywords == retention_check(retained, total)
    IN IF original.url # "" /\ original.url \notin rewritten.content.urls
       THEN [score |-> UrlPenalty(by_keywords.score),
             issues |-> Append(by_keywords.issues, "url_lost")]
       ELSE by_keywords

\* a variant of the sentence rule that already objects to an average of 50
SentencesTooLongFrom50(content) ==
    content.sentence_chars >= 50 * Max(content.n_sentences, 1)

\* _check_readability, lines 162-164: avg_sentence_length > 50, where the
\* average is over all the parts of the split
SentencesTooLong(content) ==
    content.sentence_chars > 50 * Max(content.n_sentences, 1)

\* QualityController._check_readability
check_readability(content) ==
    LET by_paragraphs ==
            IF content.paragraphs < 2
            THEN [score |-> 50, issues |-> <<"no_paragraphs">>]
            ELSE [score |-> 80, issues |-> <<>>]
        by_sentences ==
            IF SentencesTooLong(content)
            THEN [score |-> (by_paragraphs.score * 8) \div 10,
                  issues |-> Append(by_paragraphs.issues, "long_sentences")]
            ELSE by_paragraphs
    IN IF content.has_h2 \/ content.has_bold
       THEN [by_sentences EXCEPT !.score = Min(by_sentences.score + 20, 100)]
       ELSE by_sentences

\* QualityController._check_format
check_format(content) ==
    LET score == (IF content.starts_hash THEN 30 ELSE 0)
                 + (IF content.has_emoji THEN 20 ELSE 0)
                 + (IF content.has_h2 THEN 30 ELSE 0)
                 + (IF content.has_bold \/ content.has_star THEN 20 ELSE 0)
    IN [score |-> Min(score, 100),
        issues |-> IF content.starts_hash THEN <<>> ELSE <<"no_title_format">>]

\* the text of an issue as a sequence of phrases; the issues of the four
\* checks are named by what they say, any other issue is one phrase
IssueText(issue) ==
    CASE issue = "too_short" -> <<"content too short", ", may be incomplete">>
      [] issue = "too_long" -> <<"content too long", ", may be hard to read">>
      [] issue = "partial_loss" -> <<"some key information may be lost">>
      [] issue = "major_loss" -> <<"much key information lost">>
      [] issue = "url_lost" -> <<"source URL lost">>
      [] issue = "no_paragraphs" -> <<"no paragraph breaks", ", hard to read">>
      [] issue = "long_sentences" -> <<"sentences too long", ", split them">>
      [] issue = "no_title_format" -> <<"no title format">>
      [] issue = "too_long_with_long_sentences" ->
             <<"sentences too long", " and ", "content too long">>
      [] OTHER -> <<issue>>

\* _generate_suggestions, lines 224-233: issue_to_suggestion in the order of
\* the dict literal
issue_to_suggestion ==
    <<[key |-> <<"content too short">>, suggestion |-> "add more information"],
      [key |-> <<"content too long">>, suggestion |-> "shorten the content"],
      [key |-> <<"some key information may be lost">>, suggestion |-> "keep the key terms"],
      [key |-> <<"much key information lost">>, suggestion |-> "rewrite from the original"],
      [key |-> <<"source URL lost">>, suggestion |-> "add the source link"],
      [key |-> <<"no paragraph breaks">>, suggestion |-> "add paragraph breaks"],
      [key |-> <<"sentences too long">>, suggestion |-> "split long sentences"],
      [key |-> <<"no title format">>, suggestion |-> "add a '#' title"]>>

\* key in issue: the key is a contiguous part of the issue's text
KeyIn(key, issue) ==
    \E i \in 0..(Len(IssueText(issue)) - Len(key)) :
        SubSeq(IssueText(issue), i + 1, i + Len(key)) = key

\* a variant of the lookup that takes the last matching key of the table
suggestion_of_last_key(issue) ==
    LET hits == {n \in DOMAIN issue_to_suggestion : KeyIn(issue_to_suggestion[n].key, issue)}
    IN IF hits = {} THEN <<"resolve:", issue>>
       ELSE <<issue_to_suggestion[CHOOSE n \in hits : \A m \in hits : m <= n].suggestion>>

\* _generate_suggestions, lines 236-242: the inner for with break, and its
\* else branch
suggestion_of(issue) ==
    LET hits == {n \in DOMAIN issue_to_suggestion : KeyIn(issue_to_suggestion[n].key, issue)}
    IN IF hits = {} THEN <<"resolve:", issue>>
       ELSE <<issue_to_suggestion[CHOOSE n \in hits : \A m \in hits : n <= m].suggestion>>

\* QualityController._generate_suggestions
generate_suggestions(issues) ==
    [k \in 1..Len(issues) |-> suggestion_of(issues[k])]

\* a variant of the verdict that looks at the score alone
VerdictByScore(score, issues, min) == score >= min

\* validate_rewritten_content, line 66
Verdict(score, issues, min) == score >= min /\ Len(issues) <= 1

\* a variant of the composite in which the length check weighs 0.3
CompositeOff(length, completeness, readability, format) ==
    length * 3 + completeness * 3 + readability * 3 + format * 2

\* validate_rewritten_content, lines 42, 48, 54 and 60: the weights 0.2, 0.3,
\* 0.3 and 0.2 of the four checks
Composite(length, completeness, readability, format) ==
    length * 2 + completeness * 3 + readability * 3 + format * 2

\* QualityController.validate_rewritten_content
validate_rewritten_content(original, rewritten, min) ==
    LET length_check == check_length(rewritten.content)
        completeness_check == check_completeness(original, rewritten)
        readability_check == check_readability(rewritten.content)
        format_check == check_format(rewritten.content)
        score == Composite(length_check.score, completeness_check.score,
                           readability_check.score, format_check.score)
        issues == length_check.issues \o completeness_check.issues
                  \o readability_check.issues \o format_check.issues
    IN [is_valid |-> Verdict(score, issues, min),
        score |-> score,
        issues |-> issues,
        suggestions |-> generate_suggestions(issues)]

\* ------------------------------------------------- validator: the inputs
\* originals of 1200 characters with three keywords, with two or with none,
\* with and without a URL
OriginalTexts == {<<"GPT", "news", "model">>, <<"GPT", "news">>, <<"the">>}
Originals ==
    {NewsItem(TitleGN, Content(t, 1200, 3, 50, TRUE, FALSE, FALSE), u, "arxiv", Now, 0) :
         t \in OriginalTexts, u \in {"", Urls[1]}}

\* rewritten texts that retain 0, 1, 2 and 3 of the three keywords, and 0,
\* 1, 2 and 2 of the two
RewrittenTexts == {<<"agent">>, <<"agent", "GPT">>, <<"news", "the", "GPT">>,
                   <<"model", "news", "GPT", "OpenAI">>}
RewrittenLengths == {499, 500, 799, 800, 999, 1000, 3000, 3001}

\* <<number of parts, characters of the non-blank parts>>: one part that is
\* the whole content when n is 0, else n parts
SentenceStats == {<<0, 0>>, <<20, 400>>, <<10, 500>>, <<10, 501>>}

\* '*' is in every content that has '**'
Emphases == {<<FALSE, FALSE>>, <<FALSE, TRUE>>, <<TRUE, TRUE>>}

\* the parts cannot hold more characters than the content has
StatsFor(length) == {x \in SentenceStats : x[2] + x[1] <= length + 1}

Articles ==
    UNION {{Article(t, l, p, IF s[1] = 0 THEN 1 ELSE s[1],
                    IF s[1] = 0 THEN l ELSE s[2], us, hash, h2, e[1], e[2], emoji) :
                t \in RewrittenTexts, p \in {1, 2}, s \in StatsFor(l),
                us \in {{}, {Urls[1]}}, hash \in BOOLEAN, h2 \in BOOLEAN,
                e \in Emphases, emoji \in BOOLEAN} : l \in RewrittenLengths}

\* ContentRewriter hands back an item with the source fields of the original
Rewrite(original, article) == [original EXCEPT !.content = article]

\* the default 0.6 and 0.7: at both, the float sum of the code and the exact
\* sum of the model fall on the same side for every value of the four checks
ValidatorMinScores == {600, 700}

\* --------------------------------------------------------- validation
\* a QualityController is constructed and a caller holds an original and
\* its rewritten item
InitValidate ==
    /\ v_original \in Originals
    /\ \E article \in Articles : v_rewritten = Rewrite(v_original, article)
    /\ v_min_quality_score \in ValidatorMinScores
    /\ v_result = <<>>
    /\ v_pc = "call"
    /\ IdleCuration
    /\ IdleSim
    /\ IdleAssess
    /\ IdleExt

\* validate_rewritten_content(original, rewritten)
Validate ==
    /\ v_pc = "call"
    /\ v_result' = validate_rewritten_content(v_original, v_rewritten,
                                              v_min_quality_score)
    /\ v_pc' = "validated"
    /\ UNCHANGED <<v_original, v_rewritten, v_min_quality_score>>
    /\ UNCHANGED <<curation_vars, sim_vars, assess_vars, keywords, ext_vars>>

NextValidate == Validate

SpecValidate == InitValidate /\ [][NextValidate]_vars

\* C13: validate_rewritten_content returns is_valid exactly when the score
\* it returns is >= min_quality_score and it collected at most one issue;
\* with two or more issues the result is invalid whatever the score.
C13_ValidIffScoreAndFewIssues ==
    v_pc = "validated" =>
        /\ v_result.is_valid <=>
               (v_result.score >= v_min_quality_score /\ Len(v_result.issues) <= 1)
        /\ Len(v_result.issues) >= 2 => ~v_result.is_valid

\* C13 witness: a result whose score is at or above the minimum and which
\* is invalid for its two issues alone.
C13_Witness ==
    /\ v_pc = "validated"
    /\ v_result.score >= v_min_quality_score
    /\ Len(v_result.issues) = 2
    /\ ~v_result.is_valid

\* the rewritten content's length is in the range where the validator and
\* the assessor give the same sub-score
SameAsAssessor(length) == length >= 1000 /\ length <= 3000

\* C14 as stated: for every length of the rewritten content, _check_length
\* returns the sub-score the assessor's length rule gives for that length
\* (<100 -> 0.2, <300 -> 0.5, <1000 -> 0.8, otherwise 1.0).
C14_LengthCheckIsAssessorRule ==
    v_pc = "validated" =>
        check_length(v_rewritten.content).score
            = LengthScore(v_rewritten.content.length) * 10

\* C14, amended: _check_length has its own buckets, <500 -> 0.3 with the
\* "too short" issue, <800 -> 0.6, <=3000 -> 1.0, otherwise 0.7 with the
\* "too long" issue, and agrees with the assessor's length rule exactly for
\* the lengths 1000..3000.
C14_LengthCheckOwnBuckets ==
    v_pc = "validated" =>
        LET length == v_rewritten.content.length
            r == check_length(v_rewritten.content)
        IN /\ length < 500 => r = [score |-> 30, issues |-> <<"too_short">>]
           /\ length >= 500 /\ length < 800 => r = [score |-> 60, issues |-> <<>>]
           /\ length >= 800 /\ length <= 3000 => r = [score |-> 100, issues |-> <<>>]
           /\ length > 3000 => r = [score |-> 70, issues |-> <<"too_long">>]
           /\ r.score = LengthScore(length) * 10 <=> SameAsAssessor(length)
           /\ r.issues = SubSeq(v_result.issues, 1, Len(r.issues))

\* C14 witness: a rewritten content of more than 3000 characters was
\* validated; its length sub-score is 0.7 and the first issue is "too long".
C14_Witness ==
    /\ v_pc = "validated"
    /\ v_rewritten.content.length > 3000
    /\ check_length(v_rewritten.content).score = 70
    /\ v_result.issues # <<>>
    /\ v_result.issues[1] = "too_long"

\* the original has three extracted keywords and the rewritten content
\* retains none of them
NoneOfThreeRetained ==
    LET original_keywords == Range(extract_tags(v_original.content.text, 20))
        rewritten_keywords == Range(extract_tags(v_rewritten.content.text, 20))
    IN /\ Cardinality(original_keywords) = 3
       /\ original_keywords \cap rewritten_keywords = {}

\* the rewritten content no longer embeds the URL the original has
UrlLost ==
    v_original.url # "" /\ v_original.url \notin v_rewritten.content.urls

\* C15 as stated: when the rewritten content retains none of the original's
\* three keywords, _check_completeness returns the sub-score 0.3 and the
\* "major information loss" issue.
C15_NoneRetainedGivesThreeTenths ==
    v_pc = "validated" /\ NoneOfThreeRetained =>
        LET r == check_completeness(v_original, v_rewritten)
        IN /\ r.score = 30
           /\ \E k \in DOMAIN r.issues : r.issues[k] = "major_loss"

\* C15, amended: when the rewritten content retains none of the original's
\* three keywords, _check_completeness returns the "major information loss"
\* issue, and the sub-score 0.3 when the original has no URL or the rewritten
\* content embeds it, 0.27 with the "URL lost" issue otherwise.
C15_NoneRetainedWithUrlPenalty ==
    v_pc = "validated" /\ NoneOfThreeRetained =>
        LET r == check_completeness(v_original, v_rewritten)
        IN /\ r.issues # <<>> /\ r.issues[1] = "major_loss"
           /\ ~UrlLost => r.score = 30 /\ r.issues = <<"major_loss">>
           /\ UrlLost => r.score = 27 /\ r.issues = <<"major_loss", "url_lost">>
           /\ \A k \in DOMAIN r.issues :
                  \E n \in DOMAIN v_result.issues : v_result.issues[n] = r.issues[k]

\* C15 witness: none of three keywords retained and the URL lost; the
\* validation collected both issues and is invalid.
C15_Witness ==
    /\ v_pc = "validated"
    /\ NoneOfThreeRetained
    /\ UrlLost
    /\ check_completeness(v_original, v_rewritten).score = 27
    /\ ~v_result.is_valid

\* the example of an acceptable rewrite: the original has 1200 characters,
\* the rewritten content retains all its keywords, has at least two
\* paragraphs, starts with '#', has an emoji and embeds the original's URL;
\* the controller has the default minimum 0.6
AcceptableRewrite ==
    /\ v_min_quality_score = 600
    /\ v_original.content.length = 1200
    /\ v_original.url # ""
    /\ Range(extract_tags(v_original.content.text, 20))
           \subseteq Range(extract_tags(v_rewritten.content.text, 20))
    /\ v_rewritten.content.paragraphs >= 2
    /\ v_rewritten.content.starts_hash
    /\ v_rewritten.content.has_emoji
    /\ v_original.url \in v_rewritten.content.urls

AgeOfAssessed == days_since(a_item.published_date)

\* C17 as stated: the recency sub-score is 1.0 for an item published now,
\* 0.4 for an item dated 10 days before now and 0.1 for one dated 100 days
\* before now.
C17_RecencyExamples ==
    a_pc = "assessed" =>
        /\ AgeOfAssessed = 0 => a_sub.recency = 10
        /\ AgeOfAssessed = 10 => a_sub.recency = 4
        /\ AgeOfAssessed = 100 => a_sub.recency = 1

\* C17, amended: the recency sub-score is 1.0 for an item published now,
\* 0.6 for an item dated 10 days before now (the bucket of 7 to 13 days) and
\* 0.1 for one dated 100 days before now.
C17_RecencyExamplesOfTheTable ==
    a_pc = "assessed" =>
        /\ AgeOfAssessed = 0 => a_sub.recency = 10
        /\ AgeOfAssessed = 10 => a_sub.recency = 6
        /\ AgeOfAssessed = 100 => a_sub.recency = 1

\* C17 witness: an item dated 10 days before now was assessed and its
\* recency sub-score is 0.6.
C17_Witness ==
    /\ a_pc = "assessed"
    /\ AgeOfAssessed = 10
    /\ a_sub.recency = 6

FaultCatalogue == {NewsItem(TitleN, ContentFault, "", "arxiv", Now, 0),
                   NewsItem(TitleG, ContentUnreadable, "", "arxiv", Now, 0)}
FaultLists == UNION {[1..n -> Catalogue \cup FaultCatalogue] : n \in 0..MaxLen}

\* a caller holds a list in which such items may stand
InitFault ==
    /\ \E l \in FaultLists : heap = [i \in 1..Len(l) |-> [l[i] EXCEPT !.url = Urls[i]]]
    /\ heap_at_call = heap
    /\ min_quality_score \in MinQualityScores
    /\ duplicate_threshold \in DuplicateThresholds
    /\ pc = "call"
    /\ round = 1
    /\ news_items = [i \in 1..Len(heap) |-> i]
    /\ quality_items = <<>>
    /\ unique_items = <<>>
    /\ sorted_items = <<>>
    /\ first = <<>>
    /\ keywords = <<>>
    /\ IdleSim
    /\ IdleAssess
    /\ IdleValidate
    /\ IdleExt

NextFault ==
    \/ ReturnEmpty
    \/ FilterByQuality
    \/ Deduplicate
    \/ SortByRelevance

SpecFault == InitFault /\ [][NextFault]_vars

\* C19: a fault while scoring one item does not abort the batch: no
\* exception of keyword extraction or readability measurement reaches the
\* caller of filter_and_dedupe, and once filter_by_quality has returned,
\* every item of the list has been scored, an item whose readability could
\* not be measured with the minimum readability part.
C19_FaultDoesNotAbortBatch ==
    /\ pc # "raised"
    /\ pc \in {"quality", "unique", "done"} =>
           \A i \in DOMAIN heap :
               ~assess_raises(heap[i]) => heap[i].score >= assess_quality(heap[i])

\* ------------------------------------------- curation, then validation
\* rewritten contents the agent may get back for a curated item
SelectedArticles ==
    {Article(<<"agent">>, 499, 1, 1, 499, {}, FALSE, FALSE, FALSE, FALSE, FALSE),
     Article(<<"OpenAI", "model", "agent">>, 1000, 2, 20, 400, {Urls[1]},
             TRUE, TRUE, TRUE, TRUE, TRUE)}

\* run_news_collection, lines 115-126, and _validate_quality, lines 296-303:
\* the first curated item and its rewritten form reach the validator
SelectForValidation ==
    /\ pc = "done"
    /\ v_pc = "idle"
    /\ sorted_items # <<>>
    /\ v_original' = heap[sorted_items[1]]
    /\ \E article \in SelectedArticles : v_rewritten' = Rewrite(v_original', article)
    /\ v_min_quality_score' = 600
    /\ v_pc' = "call"
    /\ UNCHANGED v_result
    /\ UNCHANGED <<curation_vars, sim_vars, assess_vars, keywords, ext_vars>>

NextFrame ==
    \/ ReturnEmpty
    \/ FilterByQuality
    \/ Deduplicate
    \/ SortByRelevance
    \/ SelectForValidation
    \/ Validate

SpecFrame == Init /\ [][NextFrame]_vars

\* C20: the engine mutates nothing but score: filter_by_quality changes no
\* field of any NewsItem other than score; deduplicate and sort_by_relevance
\* change no field of any item and leave the list passed to them unchanged
\* in length and order; validate_rewritten_content changes neither the
\* original nor the rewritten item.
C20_OnlyScoreMutated ==
    [][/\ DOMAIN heap' = DOMAIN heap
       /\ FilterByQuality =>
              /\ \A i \in DOMAIN heap :
                     heap'[i] = [heap[i] EXCEPT !.score = heap'[i].score]
              /\ news_items' = news_items
       /\ Deduplicate => heap' = heap /\ quality_items' = quality_items
       /\ SortByRelevance => heap' = heap /\ unique_items' = unique_items
       /\ Validate =>
              /\ heap' = heap
              /\ v_original' = v_original
              /\ v_rewritten' = v_rewritten]_vars

\* C20 witness: a call in which a score was raised, a duplicate removed and
\* the order changed by the sort has returned, and its first item has been
\* validated against its rewritten form.
C20_Witness ==
    /\ pc = "done"
    /\ v_pc = "validated"
    /\ heap # heap_at_call
    /\ Len(unique_items) < Len(quality_items)
    /\ sorted_items # unique_items
    /\ v_original = heap[sorted_items[1]]

\* ------------------------------------------------------------- dates
\* A datetime is its wall-clock reading in hours and its tzinfo: <<>> when
\* naive, <<h>> for the UTC offset of h hours.  An Optional value is <<>>
\* for None and <<x>> for x.
NowHours == Now * (2 * 12)
Datetime(wall, tzinfo) == [wall |-> wall, tzinfo |-> tzinfo]

\* a variant of the normalisation that leaves a naive value naive
normalize_datetime_keep_naive(dt) ==
    IF dt = <<>> THEN <<>>
    ELSE IF dt[1].tzinfo = <<>> THEN dt
         ELSE <<Datetime(dt[1].wall - dt[1].tzinfo[1], <<0>>)>>

\* datetime_utils.normalize_datetime
normalize_datetime(dt) ==
    IF dt = <<>> THEN <<>>
    ELSE IF dt[1].tzinfo = <<>> THEN <<Datetime(dt[1].wall, <<0>>)>>
         ELSE <<Datetime(dt[1].wall - dt[1].tzinfo[1], <<0>>)>>

\* datetime_utils.get_utc_now
get_utc_now == Datetime(NowHours, <<0>>)

\* datetime.isoformat: the reading, then the offset when there is one
isoformat(dt) ==
    IF dt.tzinfo = <<>> THEN <<dt.wall>> ELSE <<dt.wall, "+", dt.tzinfo[1]>>

\* datetime.fromisoformat
fromisoformat(text) ==
    IF Len(text) = 1 THEN Datetime(text[1], <<>>) ELSE Datetime(text[1], <<text[3]>>)

\* NewsItem.__init__ with an Optional[datetime], line 39
NewsItemOf(title, content, url, source, published_date, score) ==
    LET normalized == normalize_datetime(published_date)
    IN [title |-> title, content |-> content, url |-> url, source |-> source,
        published_date |-> IF normalized = <<>> THEN get_utc_now ELSE normalized[1],
        score |-> score]

\* NewsItem.to_dict
to_dict(item) ==
    [title |-> item.title, content |-> item.content, url |-> item.url,
     source |-> item.source, published_date |-> isoformat(item.published_date),
     score |-> item.score]

\* NewsItem.from_dict; an absent or empty 'published_date' is <<>>
from_dict(data) ==
    LET published_date == IF data.published_date # <<>>
                          THEN <<fromisoformat(data.published_date)>>
                          ELSE <<>>
    IN NewsItemOf(data.title, data.content, data.url, data.source, published_date,
                  data.score)

\* the item as the assessor reads it: days_since(published_date) is the
\* whole days of now - published_date
AsAssessed(item) ==
    [item EXCEPT !.published_date =
         Now - ((NowHours - item.published_date.wall) \div (2 * 12))]

\* the dates a producer may supply, and dictionaries read from a cache
DateWalls == {NowHours, NowHours - 5, NowHours - 30, NowHours - 100, NowHours - 240,
              NowHours - 2400}
DateOffsets == {<<>>, <<0>>, <<8>>, <<0 - 5>>}
DateArgs == {<<>>} \cup {<<Datetime(w, tz)>> : w \in DateWalls, tz \in DateOffsets}
CachedDicts ==
    {[title |-> TitleGN, content |-> ContentA, url |-> Urls[1], source |-> "arxiv",
      published_date |-> t, score |-> 0] :
         t \in {<<>>, <<NowHours - 30>>, <<NowHours - 30, "+", 8>>,
                <<NowHours - 240, "+", 0>>}}

\* a producer is about to construct an item, or an item is about to be
\* read from the cache
InitDate ==
    /\ \/ /\ d_args \in DateArgs
          /\ d_dict = <<>>
          /\ d_pc = "args"
       \/ /\ d_args = <<>>
          /\ d_dict \in CachedDicts
          /\ d_pc = "cached"
    /\ d_item = <<>>
    /\ keywords = <<>>
    /\ IdleCuration
    /\ IdleSim
    /\ IdleAssess
    /\ IdleValidate
    /\ IdleSuggest
    /\ IdleConc
    /\ IdleRun

\* NewsItem(..., published_date=...)
Construct ==
    /\ d_pc = "args"
    /\ d_item' = NewsItemOf(TitleGN, ContentA, Urls[1], "arxiv", d_args, 0)
    /\ d_pc' = "item"
    /\ UNCHANGED <<d_args, d_dict>>
    /\ UNCHANGED <<curation_vars, sim_vars, assess_vars, keywords, validate_vars>>
    /\ UNCHANGED <<suggest_vars, conc_vars, run_vars>>

\* filter_and_dedupe([item]): the one write is that of filter_by_quality
CurateItem ==
    /\ d_pc = "item"
    /\ d_item' = [d_item EXCEPT
                     !.score = RaisedScore(d_item.score, assess_quality(AsAssessed(d_item)))]
    /\ d_pc' = "curated"
    /\ UNCHANGED <<d_args, d_dict>>
    /\ UNCHANGED <<curation_vars, sim_vars, assess_vars, keywords, validate_vars>>
    /\ UNCHANGED <<suggest_vars, conc_vars, run_vars>>

\* save_to_cache, line 217
ToDict ==
    /\ d_pc = "curated"
    /\ d_dict' = to_dict(d_item)
    /\ d_pc' = "dict"
    /\ UNCHANGED <<d_args, d_item>>
    /\ UNCHANGED <<curation_vars, sim_vars, assess_vars, keywords, validate_vars>>
    /\ UNCHANGED <<suggest_vars, conc_vars, run_vars>>

\* load_from_cache, line 209
FromDict ==
    /\ d_pc \in {"dict", "cached"}
    /\ d_item' = from_dict(d_dict)
    /\ d_pc' = IF d_pc = "dict" THEN "restored" ELSE "loaded"
    /\ UNCHANGED <<d_args, d_dict>>
    /\ UNCHANGED <<curation_vars, sim_vars, assess_vars, keywords, validate_vars>>
    /\ UNCHANGED <<suggest_vars, conc_vars, run_vars>>

NextDate ==
    \/ Construct
    \/ CurateItem
    \/ ToDict
    \/ FromDict

SpecDate == InitDate /\ [][NextDate]_vars

\* C21: published_date is never absent: every constructed item, built by
\* the constructor or by from_dict, has a timezone-aware UTC published_date;
\* an absent value became 'now', a naive value was taken as UTC, an aware
\* value kept its instant; and the date stays the same through curation and
\* a to_dict/from_dict round trip.
C21_PublishedDateAlwaysUtc ==
    d_pc \in {"item", "curated", "dict", "restored", "loaded"} =>
        LET date == d_item.published_date
        IN /\ date.tzinfo = <<0>>
           /\ d_pc # "loaded" =>
                  /\ d_args = <<>> => date = get_utc_now
                  /\ d_args # <<>> /\ d_args[1].tzinfo = <<>> => date.wall = d_args[1].wall
                  /\ d_args # <<>> /\ d_args[1].tzinfo # <<>> =>
                         date.wall = d_args[1].wall - d_args[1].tzinfo[1]
           /\ d_pc = "restored" => isoformat(date) = d_dict.published_date
           /\ d_pc = "loaded" /\ d_dict.published_date = <<>> => date = get_utc_now

\* C21 witness: an item built from a naive date went through curation and
\* the round trip and still has the UTC date and the score it was given.
C21_Witness ==
    /\ d_pc = "restored"
    /\ d_args # <<>>
    /\ d_args[1].tzinfo = <<>>
    /\ d_item.published_date = Datetime(d_args[1].wall, <<0>>)
    /\ d_item.score > 0

\* C22: the composite score of every ValidationResult is within [0,1]: each
\* of the four checks returns a sub-score in [0,1] and the composite is
\* their sum weighted 0.20, 0.30, 0.30, 0.20.
C22_CompositeInUnitInterval ==
    v_pc = "validated" =>
        LET length == check_length(v_rewritten.content).score
            completeness == check_completeness(v_original, v_rewritten).score
            readability == check_readability(v_rewritten.content).score
            format == check_format(v_rewritten.content).score
        IN /\ \A sub \in {length, completeness, readability, format} :
                  sub >= 0 /\ sub <= 100
           /\ v_result.score = 2 * length + 3 * completeness + 3 * readability
                               + 2 * format
           /\ v_result.score >= 0 /\ v_result.score <= ScoreScale

\* C22 witness: a rewrite for which all four checks return 1.0 was
\* validated, and its composite is 1.0.
C22_Witness ==
    /\ v_pc = "validated"
    /\ check_length(v_rewritten.content).score = 100
    /\ check_completeness(v_original, v_rewritten).score = 100
    /\ check_readability(v_rewritten.content).score = 100
    /\ check_format(v_rewritten.content).score = 100
    /\ v_result.score = ScoreScale

\* ------------------------------------------------------- suggestions
\* issue lists: the eight issues of the checks, one whose text holds two
\* keys of the table, and one that holds none
SuggestIssues == {"too_short", "too_long", "partial_loss", "major_loss", "url_lost",
                  "no_paragraphs", "long_sentences", "no_title_format",
                  "too_long_with_long_sentences", "images missing"}
IssueLists == UNION {[1..n -> SuggestIssues] : n \in 0..MaxLen}

InitSuggest ==
    /\ s_issues \in IssueLists
    /\ s_suggestions = <<>>
    /\ s_pc = "call"
    /\ keywords = <<>>
    /\ IdleCuration
    /\ IdleSim
    /\ IdleAssess
    /\ IdleValidate
    /\ IdleDate
    /\ IdleConc
    /\ IdleRun

\* _generate_suggestions(issues)
GenerateSuggestions ==
    /\ s_pc = "call"
    /\ s_suggestions' = generate_suggestions(s_issues)
    /\ s_pc' = "done"
    /\ UNCHANGED s_issues
    /\ UNCHANGED <<curation_vars, sim_vars, assess_vars, keywords, validate_vars, date_vars>>
    /\ UNCHANGED <<conc_vars, run_vars>>

NextSuggest == GenerateSuggestions

SpecSuggest == InitSuggest /\ [][NextSuggest]_vars

\* C23: the suggestions list has exactly one entry per issue, in the order
\* of the issues; the entry is the table suggestion of the first table key
\* that occurs in the issue, and the generic "resolve: <issue>" suggestion
\* when no key occurs in it.
C23_SuggestionPerIssue ==
    s_pc = "done" =>
        /\ Len(s_suggestions) = Len(s_issues)
        /\ \A k \in DOMAIN s_issues :
               \/ /\ \A n \in DOMAIN issue_to_suggestion :
                         ~KeyIn(issue_to_suggestion[n].key, s_issues[k])
                  /\ s_suggestions[k] = <<"resolve:", s_issues[k]>>
               \/ \E n \in DOMAIN issue_to_suggestion :
                      /\ KeyIn(issue_to_suggestion[n].key, s_issues[k])
                      /\ \A m \in 1..(n - 1) :
                             ~KeyIn(issue_to_suggestion[m].key, s_issues[k])
                      /\ s_suggestions[k] = <<issue_to_suggestion[n].suggestion>>

\* C23 witness: a list of an unmatched issue, an issue with two keys and an
\* issue of the checks got the generic suggestion, the suggestion of the
\* earlier key of the table and the issue's own suggestion, in that order.
C23_Witness ==
    /\ s_pc = "done"
    /\ s_issues = <<"images missing", "too_long_with_long_sentences", "url_lost">>
    /\ s_suggestions = <<<<"resolve:", "images missing">>, <<"shorten the content">>,
                         <<"add the source link">>>>

\* ---------------------------------------------- interleaved curation
\* Two invocations of filter_and_dedupe of one ContentFilter run over
\* disjoint items; every loop iteration is a step of its own.  What an
\* invocation holds in local variables is a record of calls.
ConcCatalogue ==
    { NewsItem(TitleGN, ContentA, "", "arxiv", Now - 10, 0),
      NewsItem(TitleGN, ContentB, "", "arxiv", Now, 900),
      NewsItem(TitleG, ContentC, "", "arxiv", Now, 0),
      NewsItem(TitleGN, ContentEmpty, "", "blog", Now - 100, 900) }
ConcLists == UNION {[1..n -> ConcCatalogue] : n \in 0..MaxLen}

\* the identities of a heap that go to invocation t: the odd positions to
\* the first, the even positions to the second
BatchOf(h, t) == SelectSeq([i \in 1..Len(h) |-> i], LAMBDA i : i % 2 = t % 2)

Local(items) ==
    [items |-> items, pc |-> "call", k |-> 1, quality_items |-> <<>>,
     unique_items |-> <<>>, seen_fingerprints |-> <<>>, sorted_items |-> <<>>]

InitConcurrent ==
    /\ \E l \in ConcLists : heap = [i \in 1..Len(l) |-> [l[i] EXCEPT !.url = Urls[i]]]
    /\ heap_at_call = heap
    /\ min_quality_score \in MinQualityScores
    /\ duplicate_threshold \in DuplicateThresholds
    /\ stop_words = stopwords
    /\ calls = <<Local(BatchOf(heap, 1)), Local(BatchOf(heap, 2))>>
    /\ pc = "idle" /\ round = 0
    /\ news_items = <<>> /\ quality_items = <<>> /\ unique_items = <<>>
    /\ sorted_items = <<>> /\ first = <<>> /\ keywords = <<>>
    /\ IdleSim
    /\ IdleAssess
    /\ IdleValidate
    /\ IdleDate
    /\ IdleSuggest
    /\ IdleRun

\* a variant in which the fingerprints seen are kept by the engine, not by
\* the invocation
SeenByEngine(cs, t) == cs[1].seen_fingerprints \o cs[2].seen_fingerprints

\* deduplicate, line 99: seen_fingerprints = [] is a local of the call
SeenBy(cs, t) == cs[t].seen_fingerprints

\* filter_and_dedupe, lines 45-51: the empty list returns at once
EnterCall(t) ==
    /\ calls[t].pc = "call"
    /\ calls' = [calls EXCEPT ![t].pc = IF calls[t].items = <<>> THEN "return" ELSE "filter"]
    /\ UNCHANGED <<curation_vars, stop_words>>
    /\ UNCHANGED <<sim_vars, assess_vars, keywords, validate_vars, date_vars, suggest_vars, run_vars>>

\* filter_by_quality, lines 75-81: one iteration
AssessStep(t) ==
    /\ calls[t].pc = "filter"
    /\ LET c == calls[t]
           item == c.items[c.k]
           quality_score == assess_quality(heap[item])
           kept == IF quality_score >= min_quality_score
                   THEN Append(c.quality_items, item) ELSE c.quality_items
           last == c.k = Len(c.items)
       IN /\ heap' = [heap EXCEPT ![item].score = RaisedScore(heap[item].score, quality_score)]
          /\ calls' = [calls EXCEPT
                          ![t].quality_items = kept,
                          ![t].k = IF last THEN 1 ELSE c.k + 1,
                          ![t].pc = IF ~last THEN "filter"
                                    ELSE IF kept = <<>> THEN "sort" ELSE "dedup"]
    /\ UNCHANGED <<heap_at_call, min_quality_score, duplicate_threshold, pc, round,
                   news_items, quality_items, unique_items, sorted_items, first>>
    /\ UNCHANGED stop_words
    /\ UNCHANGED <<sim_vars, assess_vars, keywords, validate_vars, date_vars, suggest_vars, run_vars>>

\* deduplicate, lines 101-115: one iteration
DedupStep(t) ==
    /\ calls[t].pc = "dedup"
    /\ LET c == calls[t]
           item == c.quality_items[c.k]
           fingerprint == calculate_fingerprint(heap[item])
           is_duplicate == IsDuplicate(fingerprint, SeenBy(calls, t))
           last == c.k = Len(c.quality_items)
       IN calls' = [calls EXCEPT
                       ![t].unique_items = IF ~is_duplicate THEN Append(c.unique_items, item)
                                           ELSE c.unique_items,
                       ![t].seen_fingerprints =
                           Remember(c.seen_fingerprints, fingerprint, is_duplicate),
                       ![t].k = IF last THEN 1 ELSE c.k + 1,
                       ![t].pc = IF last THEN "sort" ELSE "dedup"]
    /\ UNCHANGED <<curation_vars, stop_words>>
    /\ UNCHANGED <<sim_vars, assess_vars, keywords, validate_vars, date_vars, suggest_vars, run_vars>>

\* filter_and_dedupe, lines 59-60: sort_by_relevance
SortStep(t) ==
    /\ calls[t].pc = "sort"
    /\ calls' = [calls EXCEPT
                    ![t].sorted_items = sort_by_relevance(heap, calls[t].unique_items),
                    ![t].pc = "return"]
    /\ UNCHANGED <<curation_vars, stop_words>>
    /\ UNCHANGED <<sim_vars, assess_vars, keywords, validate_vars, date_vars, suggest_vars, run_vars>>

\* filter_and_dedupe, lines 47 and 61: the caller receives the list
ReturnStep(t) ==
    /\ calls[t].pc = "return"
    /\ calls' = [calls EXCEPT ![t].pc = "done"]
    /\ UNCHANGED <<curation_vars, stop_words>>
    /\ UNCHANGED <<sim_vars, assess_vars, keywords, validate_vars, date_vars, suggest_vars, run_vars>>

NextConcurrent ==
    \E t \in 1..2 :
        \/ EnterCall(t)
        \/ AssessStep(t)
        \/ DedupStep(t)
        \/ SortStep(t)
        \/ ReturnStep(t)

SpecConcurrent == InitConcurrent /\ [][NextConcurrent]_vars

\* what invocation t returns when it runs alone from the heap at the start
Alone(t) ==
    LET r == filter_by_quality(heap_at_call, calls[t].items)
    IN [heap |-> r.heap,
        sorted_items |-> sort_by_relevance(r.heap, deduplicate(r.heap, r.quality_items))]

\* invocation t has returned what it returns alone, and left its items so
ReturnsAsAlone(t) ==
    /\ calls[t].sorted_items = Alone(t).sorted_items
    /\ \A i \in Range(calls[t].items) : heap[i] = Alone(t).heap[i]

\* C24: two filter_and_dedupe invocations over disjoint sets of items,
\* interleaved in any order of their per-item steps, each return what they
\* return when run alone, and no step writes the stopword table,
\* duplicate_threshold or min_quality_score.
C24_BatchesDoNotInterfere ==
    [][/\ \A t \in 1..2 : calls[t].pc = "return" => ReturnsAsAlone(t)
       /\ stop_words' = stop_words
       /\ duplicate_threshold' = duplicate_threshold
       /\ min_quality_score' = min_quality_score]_vars

\* C24 witness: both invocations have returned, the first changed an item
\* of the second's twin and dropped a duplicate, and the second returned
\* an item whose fingerprint the first had seen.
C24_Witness ==
    /\ calls[1].pc = "done" /\ calls[2].pc = "done"
    /\ Len(calls[1].unique_items) < Len(calls[1].quality_items)
    /\ calls[2].sorted_items # <<>>
    /\ \E n \in DOMAIN calls[1].seen_fingerprints :
           calls[1].seen_fingerprints[n]
               = calculate_fingerprint(heap[calls[2].sorted_items[1]])
    /\ heap # heap_at_call

\* ------------------------------------------- claims on what is returned
\* the number of positions of a list that hold x
Occurrences(items, x) == Cardinality({k \in 1..Len(items) : items[k] = x})

\* C25: filter_and_dedupe never invents or duplicates items: every item of
\* the returned list is an item of the list given, no more often than it is
\* there, so the returned list is never the longer one and the empty list
\* returns the empty list.
C25_OutputWithinInput ==
    pc = "done" =>
        /\ \A k \in 1..Len(sorted_items) :
               /\ \E n \in 1..Len(news_items) : news_items[n] = sorted_items[k]
               /\ Occurrences(sorted_items, sorted_items[k])
                      <= Occurrences(news_items, sorted_items[k])
        /\ Len(sorted_items) <= Len(news_items)
        /\ news_items = <<>> => sorted_items = <<>>

\* C25 witness: of three items given, one fell to the quality filter or to
\* the duplicate pass and two are returned, in another order than given.
C25_Witness ==
    /\ pc = "done" /\ round = 1
    /\ Len(news_items) = 3
    /\ Len(sorted_items) = 2
    /\ sorted_items[1] > sorted_items[2]

\* ------------------------------------------- claims on the blend
\* Jaccard index of two keyword sets, 0 when either is empty
KeywordJaccard(A, B) == IF A = {} \/ B = {} THEN 0 ELSE Jaccard(A, B)

\* 0.6 * T + 0.4 * (0.4 * Jt + 0.6 * Jc) of two NewsItems, from their
\* titles and keyword lists, in units of 1/SimScale
BlendOf(x, y) ==
    LET T == IF x.title = y.title THEN JUnit
             ELSE KeywordJaccard(cut(x.title) \ stopwords, cut(y.title) \ stopwords)
        Jt == KeywordJaccard(Range(extract_tags(x.title, 10)),
                             Range(extract_tags(y.title, 10)))
        Jc == KeywordJaccard(Range(extract_tags(x.content.text, 30)),
                             Range(extract_tags(y.content.text, 30)))
    IN T * 60 + (Jt * 4 + Jc * 6) * 4

\* C26 as stated: the similarity of the fingerprints of two items is
\* 0.6 * T + 0.4 * (0.4 * Jt + 0.6 * Jc), T being 1.0 for identical titles
\* and else the Jaccard index of the titles' words without stopwords, Jt
\* and Jc the Jaccard indices of the title and content keyword sets (0 when
\* a set of the pair is empty), and it is in [0,1], for every pair.
C26_SimilarityIsBlend ==
    sim_pc = "compared" =>
        /\ sims.ab = BlendOf(pair[1], pair[2])
        /\ sims.ab \in 0..SimScale

\* what holds of the code: the blend for titles without '|', 0.0 otherwise
C26_BlendOfThreeParts ==
    sim_pc = "compared" =>
        /\ sims.ab = IF \E k \in 1..Len(pair[1].title) : pair[1].title[k] = Pipe
                        THEN 0
                     ELSE IF \E k \in 1..Len(pair[2].title) : pair[2].title[k] = Pipe
                        THEN 0
                     ELSE BlendOf(pair[1], pair[2])
        /\ sims.ab \in 0..SimScale

\* ------------------------------------------- claims on completeness
\* the keywords of the original and those of them the rewritten text keeps
OriginalKeywords == Range(extract_tags(v_original.content.text, 20))
RetainedKeywords ==
    OriginalKeywords \cap Range(extract_tags(v_rewritten.content.text, 20))

\* the table of the retention rate |retained| / |original|, in tenths
RetentionBucket ==
    LET kept == Cardinality(RetainedKeywords)
        all == Cardinality(OriginalKeywords)
    IN IF all = 0 THEN "none"
       ELSE IF kept * 10 >= all * 7 THEN "most"
       ELSE IF kept * 10 >= all * 5 THEN "half"
       ELSE IF kept * 10 >= all * 3 THEN "partial"
       ELSE "major"

\* C27: the completeness sub-score follows the retention rate: >= 0.7 gives
\* 1.0, >= 0.5 gives 0.8, >= 0.3 gives 0.6 and the "partial information
\* loss" issue, lower gives 0.3 and the "major information loss" issue, no
\* original keywords give 0.5 and no loss issue; a non-empty original URL
\* that the rewritten content lacks multiplies the sub-score by 0.9 and adds
\* the "source URL lost" issue, and otherwise neither happens.
C27_CompletenessTable ==
    v_pc = "validated" =>
        LET r == check_completeness(v_original, v_rewritten)
            b == RetentionBucket
            base == CASE b = "most" -> 100
                      [] b = "half" -> 80
                      [] b = "partial" -> 60
                      [] b = "major" -> 30
                      [] b = "none" -> 50
            loss == CASE b = "partial" -> <<"partial_loss">>
                      [] b = "major" -> <<"major_loss">>
                      [] OTHER -> <<>>
        IN /\ UrlLost => /\ 10 * r.score = 9 * base
                         /\ r.issues = Append(loss, "url_lost")
           /\ ~UrlLost => /\ r.score = base
                          /\ r.issues = loss
           /\ \A k \in DOMAIN r.issues :
                  \E n \in DOMAIN v_result.issues : v_result.issues[n] = r.issues[k]

\* C27 witness: one of two keywords is retained, a rate of exactly 0.5, and
\* the URL of the original is lost: the sub-score is 0.72 with the URL
\* issue alone.
C27_Witness ==
    /\ v_pc = "validated"
    /\ Cardinality(OriginalKeywords) = 2
    /\ Cardinality(RetainedKeywords) = 1
    /\ UrlLost
    /\ check_completeness(v_original, v_rewritten).score = 72
    /\ check_completeness(v_original, v_rewritten).issues = <<"url_lost">>

\* ------------------------------------------- claims on the unique list
\* C28: after deduplicate returns, every two items at distinct positions of
\* its output have a fingerprint similarity strictly below
\* duplicate_threshold.
C28_OutputPairwiseBelowThreshold ==
    AfterDedup =>
        LET S == SimMatrix
        IN \A p, q \in 1..Len(unique_items) :
              p # q => S[unique_items[p]][unique_items[q]] < duplicate_threshold

\* C28 witness: three items passed the quality filter, the third is a
\* near-duplicate of the first and not of the second, and the output is the
\* first two, which are similar below the threshold.
C28_Witness ==
    /\ AfterDedup
    /\ Len(quality_items) = 3
    /\ Len(unique_items) = 2
    /\ unique_items = SubSeq(quality_items, 1, 2)
    /\ LET S == SimMatrix
       IN /\ S[quality_items[3]][quality_items[1]] >= duplicate_threshold
          /\ S[quality_items[3]][quality_items[2]] < duplicate_threshold
          /\ S[quality_items[1]][quality_items[2]] > 0

\* ------------------------------------------------- the agent's run
\* run_news_collection from the selection on.  An item here is what the
\* stages copy and extend: its url and its tags.
AgentItem(url, tags) == [url |-> url, tags |-> tags]

\* the lists _select_best_news can hand on: items of distinct sources
SelectedLists == {[i \in 1..n |-> AgentItem(Urls[i], <<>>)] : n \in 0..MaxLen}

\* how a call of rewrite_news_item, format_news_item or
\* validate_rewritten_content can end
RewriteOutcomes == {"rewritten", "returned_original", "raised"}
FormatOutcomes == {"formatted", "raised"}
ValidationOutcomes == {"valid", "invalid", "raised"}

\* rewrite_news_item, lines 132-149: a new item with the url of the given
\* one, or the given one when rewriting failed inside
rewrite_news_item(item, outcome) ==
    IF outcome = "rewritten"
    THEN AgentItem(item.url, Append(item.tags, "rewritten"))
    ELSE item

\* a variant of the except branches that leaves a failed item out
DroppedOnFailure(items, item) == items

\* _rewrite_news, line 265, and _format_for_wechat, line 291
AppendedOnFailure(items, item) == Append(items, item)

InitAgent ==
    /\ selected_items \in SelectedLists
    /\ rewritten_items = <<>>
    /\ formatted_items = <<>>
    /\ validated_items = <<>>
    /\ verdicts = <<>>
    /\ ag_pc = "rewrite"
    /\ ag_k = 1
    /\ IdleCuration
    /\ IdleSim
    /\ IdleAssess
    /\ IdleValidate
    /\ IdleDate
    /\ IdleSuggest
    /\ IdleConc
    /\ IdleAuth

\* _rewrite_news, lines 259-265: one iteration
RewriteStep ==
    /\ ag_pc = "rewrite"
    /\ ag_k <= Len(selected_items)
    /\ \E outcome \in RewriteOutcomes :
          LET item == selected_items[ag_k]
          IN rewritten_items' =
                 IF outcome = "raised"
                 THEN AppendedOnFailure(rewritten_items, item)
                 ELSE Append(rewritten_items, rewrite_news_item(item, outcome))
    /\ ag_k' = ag_k + 1
    /\ UNCHANGED <<selected_items, formatted_items, validated_items, verdicts, ag_pc>>
    /\ UNCHANGED <<curation_vars, sim_vars, assess_vars, keywords, validate_vars>>
    /\ UNCHANGED <<date_vars, suggest_vars, conc_vars, auth_vars>>

\* _rewrite_news, line 267, and run_news_collection, line 123
ReturnRewritten ==
    /\ ag_pc = "rewrite"
    /\ ag_k > Len(selected_items)
    /\ ag_pc' = "format"
    /\ ag_k' = 1
    /\ UNCHANGED <<selected_items, rewritten_items, formatted_items, validated_items,
                   verdicts>>
    /\ UNCHANGED <<curation_vars, sim_vars, assess_vars, keywords, validate_vars>>
    /\ UNCHANGED <<date_vars, suggest_vars, conc_vars, auth_vars>>

\* _format_for_wechat, lines 273-291: one iteration
FormatStep ==
    /\ ag_pc = "format"
    /\ ag_k <= Len(rewritten_items)
    /\ \E outcome \in FormatOutcomes :
          LET item == rewritten_items[ag_k]
          IN formatted_items' =
                 IF outcome = "raised"
                 THEN AppendedOnFailure(formatted_items, item)
                 ELSE Append(formatted_items,
                             AgentItem(item.url, Append(item.tags, "formatted")))
    /\ ag_k' = ag_k + 1
    /\ UNCHANGED <<selected_items, rewritten_items, validated_items, verdicts, ag_pc>>
    /\ UNCHANGED <<curation_vars, sim_vars, assess_vars, keywords, validate_vars>>
    /\ UNCHANGED <<date_vars, suggest_vars, conc_vars, auth_vars>>

\* _format_for_wechat, line 293, and run_news_collection, line 127
ReturnFormatted ==
    /\ ag_pc = "format"
    /\ ag_k > Len(rewritten_items)
    /\ ag_pc' = "validate"
    /\ ag_k' = 1
    /\ UNCHANGED <<selected_items, rewritten_items, formatted_items, validated_items,
                   verdicts>>
    /\ UNCHANGED <<curation_vars, sim_vars, assess_vars, keywords, validate_vars>>
    /\ UNCHANGED <<date_vars, suggest_vars, conc_vars, auth_vars>>

\* the pairs of zip(originals, formatted)
ZipLen == Min(Len(selected_items), Len(formatted_items))

\* _validate_quality, lines 299-315: one iteration; the formatted item is
\* appended in each of the three branches
ValidateStep ==
    /\ ag_pc = "validate"
    /\ ag_k <= ZipLen
    /\ \E outcome \in ValidationOutcomes :
          LET original == selected_items[ag_k]
              formatted_item == formatted_items[ag_k]
          IN /\ validated_items' = Append(validated_items, formatted_item)
             /\ verdicts' = Append(verdicts, [original |-> original,
                                              formatted_item |-> formatted_item,
                                              outcome |-> outcome])
    /\ ag_k' = ag_k + 1
    /\ UNCHANGED <<selected_items, rewritten_items, formatted_items, ag_pc>>
    /\ UNCHANGED <<curation_vars, sim_vars, assess_vars, keywords, validate_vars>>
    /\ UNCHANGED <<date_vars, suggest_vars, conc_vars, auth_vars>>

\* _validate_quality, line 317
ReturnValidated ==
    /\ ag_pc = "validate"
    /\ ag_k > ZipLen
    /\ ag_pc' = "save"
    /\ ag_k' = 1
    /\ UNCHANGED <<selected_items, rewritten_items, formatted_items, validated_items,
                   verdicts>>
    /\ UNCHANGED <<curation_vars, sim_vars, assess_vars, keywords, validate_vars>>
    /\ UNCHANGED <<date_vars, suggest_vars, conc_vars, auth_vars>>

NextAgent ==
    \/ RewriteStep
    \/ ReturnRewritten
    \/ FormatStep
    \/ ReturnFormatted
    \/ ValidateStep
    \/ ReturnValidated

SpecAgent == InitAgent /\ [][NextAgent]_vars

\* item d is item x or was made from it: the url is x's and the tags are
\* x's, followed by the marks of the stages that succeeded
DerivedFrom(d, x) ==
    /\ d.url = x.url
    /\ d.tags \in {x.tags, x.tags \o <<"rewritten">>, x.tags \o <<"formatted">>,
                   x.tags \o <<"rewritten", "formatted">>}

\* list b holds, position by position, the items of list a or what was
\* made from them, as far as b has been built
Aligned(a, b) ==
    /\ Len(b) <= Len(a)
    /\ \A k \in 1..Len(b) : DerivedFrom(b[k], a[k])

\* C29: in run_news_collection the selected, rewritten, formatted and
\* validated lists have the same length and stay position-aligned: a rewrite
\* or formatting failure for item i leaves the unmodified item at position
\* i, _validate_quality pairs every original with its own derivative, and
\* it returns every formatted item, whether the verdict was valid, invalid
\* or the validation raised.
C29_ListsStayAligned ==
    /\ Aligned(selected_items, rewritten_items)
    /\ Aligned(selected_items, formatted_items)
    /\ Aligned(rewritten_items, formatted_items)
    /\ ag_pc \in {"format", "validate", "save"} =>
           Len(rewritten_items) = Len(selected_items)
    /\ ag_pc \in {"validate", "save"} => Len(formatted_items) = Len(selected_items)
    /\ validated_items = SubSeq(formatted_items, 1, Len(validated_items))
    /\ Len(verdicts) = Len(validated_items)
    /\ \A k \in 1..Len(verdicts) :
           /\ verdicts[k].original = selected_items[k]
           /\ verdicts[k].formatted_item = formatted_items[k]
           /\ DerivedFrom(verdicts[k].formatted_item, verdicts[k].original)
    /\ ag_pc = "save" => validated_items = formatted_items

\* C29 witness: of three items the first failed in rewriting and the second
\* in formatting, the validations ended in the three ways, and all three
\* items are returned.
C29_Witness ==
    /\ ag_pc = "save"
    /\ Len(selected_items) = 3
    /\ rewritten_items[1] = selected_items[1]
    /\ rewritten_items[2] # selected_items[2]
    /\ formatted_items[2] = rewritten_items[2]
    /\ formatted_items[3].tags = <<"rewritten", "formatted">>
    /\ {verdicts[k].outcome : k \in 1..3} = ValidationOutcomes
    /\ Len(validated_items) = 3

\* ------------------------------------------------------ the UserManager
\* UserManager.__init__, line 26
session_timeout == 3600

\* the clock is read in steps of half an hour, up to an hour and a half
TickSeconds == session_timeout \div 2
MaxClock == 3 * TickSeconds
Elapsed == {0, TickSeconds, 2 * TickSeconds, 3 * TickSeconds}

\* at most this many tokens are drawn; token 0 stands for the empty string
MaxTokens == 2
Tokens == 0..MaxTokens

Usernames == {"", "admin", "testuser"}
Passwords == {"", "admin123", "testpass"}

\* _hash_password: sha256 of the password and the fixed salt
hash_password(password) == <<"sha256", password, "wechat_agent_salt_2025">>

\* _verify_password
verify_password(password, password_hash) == hash_password(password) = password_hash

User(password, role, last_login) ==
    [password_hash |-> hash_password(password), role |-> role, last_login |-> last_login]

Result(op, token, ok) == [op |-> op, token |-> token, ok |-> ok]

\* a variant of the timeout test that allows twice the timeout
ExpiredAfterTwice(session, current_time) ==
    current_time - session.last_activity > 2 * session_timeout

\* validate_session, line 137, and cleanup_expired_sessions, line 258
Expired(session, current_time) ==
    current_time - session.last_activity > session_timeout

\* del self.sessions[token]
Without(ss, token) == [t \in DOMAIN ss \ {token} |-> ss[t]]

\* _ensure_users_file and _load_users: the default administrator
InitAuth ==
    /\ users = [u \in {"admin"} |-> User("admin123", "admin", <<>>)]
    /\ sessions = <<>>
    /\ clock = 0
    /\ tokens_issued = 0
    /\ returned = Result("construct", 0, TRUE)
    /\ IdleCuration
    /\ IdleSim
    /\ IdleAssess
    /\ IdleValidate
    /\ IdleDate
    /\ IdleSuggest
    /\ IdleConc
    /\ IdleAgent

\* time passes between two calls
Later(d) ==
    /\ clock + d <= MaxClock
    /\ clock' = clock + d

AuthFrame ==
    /\ UNCHANGED <<curation_vars, sim_vars, assess_vars, keywords, validate_vars>>
    /\ UNCHANGED <<date_vars, suggest_vars, conc_vars, agent_vars>>

\* UserManager.authenticate
Authenticate(username, password, d) ==
    /\ Later(d)
    /\ IF \/ username = "" \/ password = ""
          \/ username \notin DOMAIN users
          \/ ~verify_password(password, users[username].password_hash)
       THEN /\ returned' = Result("authenticate", 0, FALSE)
            /\ UNCHANGED <<users, sessions, tokens_issued>>
       ELSE /\ tokens_issued < MaxTokens
            /\ LET session_token == tokens_issued + 1
               IN /\ sessions' =
                         [t \in DOMAIN sessions \cup {session_token} |->
                             IF t = session_token
                             THEN [username |-> username,
                                   role |-> users[username].role,
                                   login_time |-> clock',
                                   last_activity |-> clock']
                             ELSE sessions[t]]
                  /\ tokens_issued' = session_token
                  /\ returned' = Result("authenticate", session_token, TRUE)
            /\ users' = [users EXCEPT ![username].last_login = <<clock'>>]
    /\ AuthFrame

\* UserManager.validate_session
ValidateSession(session_token, d) ==
    /\ Later(d)
    /\ IF session_token = 0 \/ session_token \notin DOMAIN sessions
       THEN /\ returned' = Result("validate_session", session_token, FALSE)
            /\ UNCHANGED sessions
       ELSE IF Expired(sessions[session_token], clock')
       THEN /\ sessions' = Without(sessions, session_token)
            /\ returned' = Result("validate_session", session_token, FALSE)
       ELSE /\ sessions' = [sessions EXCEPT ![session_token].last_activity = clock']
            /\ returned' = Result("validate_session", session_token, TRUE)
    /\ UNCHANGED <<users, tokens_issued>>
    /\ AuthFrame

\* UserManager.logout
Logout(session_token, d) ==
    /\ Later(d)
    /\ IF session_token \in DOMAIN sessions
       THEN /\ sessions' = Without(sessions, session_token)
            /\ returned' = Result("logout", session_token, TRUE)
       ELSE /\ returned' = Result("logout", session_token, FALSE)
            /\ UNCHANGED sessions
    /\ UNCHANGED <<users, tokens_issued>>
    /\ AuthFrame

\* UserManager.add_user
AddUser(username, password, d) ==
    /\ Later(d)
    /\ IF username \in DOMAIN users
       THEN /\ returned' = Result("add_user", 0, FALSE)
            /\ UNCHANGED users
       ELSE /\ users' = [u \in DOMAIN users \cup {username} |->
                            IF u = username THEN User(password, "user", <<>>)
                            ELSE users[u]]
            /\ returned' = Result("add_user", 0, TRUE)
    /\ UNCHANGED <<sessions, tokens_issued>>
    /\ AuthFrame

\* UserManager.change_password
ChangePassword(username, old_password, new_password, d) ==
    /\ Later(d)
    /\ IF \/ username \notin DOMAIN users
          \/ ~verify_password(old_password, users[username].password_hash)
       THEN /\ returned' = Result("change_password", 0, FALSE)
            /\ UNCHANGED users
       ELSE /\ users' = [users EXCEPT
                            ![username].password_hash = hash_password(new_password)]
            /\ returned' = Result("change_password", 0, TRUE)
    /\ UNCHANGED <<sessions, tokens_issued>>
    /\ AuthFrame

\* UserManager.cleanup_expired_sessions
CleanupExpiredSessions(d) ==
    /\ Later(d)
    /\ LET expired_tokens == {t \in DOMAIN sessions : Expired(sessions[t], clock')}
       IN sessions' = [t \in DOMAIN sessions \ expired_tokens |-> sessions[t]]
    /\ returned' = Result("cleanup_expired_sessions", 0, TRUE)
    /\ UNCHANGED <<users, tokens_issued>>
    /\ AuthFrame

NextAuth ==
    \E d \in Elapsed :
        \/ \E u \in Usernames, p \in Passwords : Authenticate(u, p, d)
        \/ \E t \in Tokens : ValidateSession(t, d)
        \/ \E t \in Tokens : Logout(t, d)
        \/ \E u \in Usernames \ {""}, p \in Passwords \ {""} : AddUser(u, p, d)
        \/ \E u \in Usernames, p, q \in Passwords \ {""} : ChangePassword(u, p, q, d)
        \/ CleanupExpiredSessions(d)

SpecAuth == InitAuth /\ [][NextAuth]_vars

\* the tokens that successful authenticate calls have returned
Issued == 1..tokens_issued

\* C30: over any sequence of authenticate, validate_session, logout,
\* add_user, change_password and cleanup_expired_sessions calls,
\* validate_session(token) succeeds only for a token that a successful
\* authenticate returned, that has not been logged out since and whose last
\* activity is at most session_timeout old; a failed authenticate creates no
\* session, a successful validation refreshes last_activity, and an expired
\* or logged-out token is removed and never validates again.
C30_SessionsAsIssued ==
    [][LET r == returned'
       IN /\ (r.op = "validate_session" /\ r.ok) =>
                 /\ r.token \in Issued
                 /\ r.token \in DOMAIN sessions
                 /\ clock' - sessions[r.token].last_activity <= session_timeout
                 /\ r.token \in DOMAIN sessions'
                 /\ sessions'[r.token].last_activity = clock'
          /\ (r.op = "validate_session" /\ ~r.ok) => r.token \notin DOMAIN sessions'
          /\ (r.op = "validate_session" /\ r.token \in DOMAIN sessions
                 /\ clock' - sessions[r.token].last_activity > session_timeout) =>
                 ~r.ok
          /\ r.op = "logout" => r.token \notin DOMAIN sessions'
          /\ (r.op = "authenticate" /\ ~r.ok) => sessions' = sessions
          /\ (r.op = "authenticate" /\ r.ok) =>
                 /\ r.token \notin Issued
                 /\ DOMAIN sessions' = DOMAIN sessions \cup {r.token}
          /\ r.op # "authenticate" => tokens_issued' = tokens_issued
          /\ \A t \in DOMAIN sessions' \ DOMAIN sessions : t \notin Issued
          /\ DOMAIN sessions' \subseteq 1..tokens_issued']_vars

\* C30 witness: the first token expired and was refused and removed by
\* validate_session while the second, refreshed after its login, is alive.
C30_Witness ==
    /\ returned = Result("validate_session", 1, FALSE)
    /\ tokens_issued = 2
    /\ DOMAIN sessions = {2}
    /\ sessions[2].last_activity > sessions[2].login_time
    /\ clock = MaxClock

====
